---- MODULE Spec2Model ----
(***************************************************************************)
(* A model of the SMS gateway back end (src/backend/app): the send         *)
(* pipeline with its quota counter, the device sessions, the delivery      *)
(* reports and the sweeps that change the status of a Message row.         *)
(*                                                                         *)
(* Every database commit of a handler is one step of the model: between    *)
(* two commits of one request another request, a worker task or a device   *)
(* session may run (several server workers and Celery workers share the    *)
(* database, and the ORM reads a row and writes it back without a lock).   *)
(***************************************************************************)
EXTENDS Naturals, Integers, Sequences, FiniteSets, TLC

\* ------------------------------------------------------------------ bounds
MaxRecipients == 2      \* recipients of one send request
MaxMsgs == 2            \* Message rows ever created (SpecSend)
MaxLiveMsgs == 1        \* Message rows ever created (Spec)
MaxReqs == 2            \* send requests in flight at once
MaxClock == 3           \* readings of the clock
MaxTasks == 1           \* update_message_status tasks waiting in the broker
MaxSmsPerMonth == 1     \* UserPlan.max_sms_per_month of the Free plan
MaxSmsBasic == 4        \* UserPlan.max_sms_per_month of the Basic plan
MaxBatchMsgs == 4       \* Message rows ever created (SpecBatch)
MaxAssign == 4          \* recipients of the send whose assignment is computed
MaxDevicesFree == 1     \* UserPlan.max_devices of the Free plan
MaxDevicesBasic == 2    \* UserPlan.max_devices of the Basic plan
MaxBillingMsgs == 2     \* Message rows ever created (SpecBilling)
MaxSubs == 2            \* Subscription rows at once
MaxPayments == 2        \* Payment rows at once
MaxDispatch == 50       \* rows of the send that is dispatched
PeriodDays == 2         \* days of a billing period (30 for a month)
ReminderDays == 1       \* RENEWAL_REMINDER_DAYS (3)
GraceDays == 1          \* SUBSCRIPTION_GRACE_PERIOD_DAYS (3)
MaxDays == 5            \* days the renewal scans are followed over
MaxSessionMsgs == 2     \* Message rows ever created (SpecSession)
MaxPushMsgs == 3        \* Message rows ever created (SpecPush)
HeartbeatTimeout == 2   \* WEBSOCKET_HEARTBEAT_TIMEOUT, in steps of the clock

\* --------------------------------------------------------------- constants
NULL == "null"
NoTime == 0             \* sent_at / delivered_at default None

Users == {"u1", "u2"}
DeviceIds == {"d1", "d2"}
UnknownDevice == "dx"   \* a device_id with no SMSDevice row
Reqs == 1..MaxReqs
Bodies == {"hi", "yo"}  \* SMSMessageCreate.body of a request
MsgIds == 1..(MaxLiveMsgs + 1)   \* the ids a report or callback may name
SubIds == 1..MaxSubs
PayIds == 1..MaxPayments
\* provider_transaction_id as a provider reports it; a charge that succeeds
\* may come back without any of the keys the id is read from
TxnIds == {"t1", "t2"}

\* SMSDevice.user_id of the registered devices
DeviceOwner(d) == IF d = "d1" THEN "u1" ELSE "u2"

\* The values of SMSMessage.status the data model declares for outgoing rows
DeclaredStatuses == {"queued", "assigned", "sending", "sent", "delivered", "failed"}
\* What a frame or report may carry in "status": the field is a free string;
\* "queued" stands for every value an agent is not meant to report
ReportStatuses == {"sent", "delivered", "failed", "queued"}
\* The reports of the model: <<status, error>>; an error text comes with failed
Reports == {<<"sent", NULL>>, <<"delivered", NULL>>, <<"failed", "err">>,
            <<"queued", NULL>>}

VARIABLES
    quota,      \* UserQuota row of each user
    devices,    \* SMSDevice rows
    messages,   \* SMSMessage rows, by id
    next_id,    \* the next fresh Message id
    reqs,       \* the send requests in flight: position and locals
    notified,   \* Message ids handed to a push notification
    ws,         \* which devices have an open session
    frame,      \* the frame handled by the last step and the answer sent
    tasks,      \* update_message_status tasks waiting in the broker
    now,        \* the clock
    call,       \* a function of the back end applied to given arguments
    dreqs,      \* the device registrations and deletions in flight
    subs,       \* Subscription rows, by id
    payments,   \* Payment rows, by id
    qstash,     \* QStashService: what initialize() left in the class
    conns,      \* the WebSocket connections: position and locals of each
    redis,      \* ws:device:{id} keys of the hub: seconds each has to live
    pushed,     \* task frames sent so far, counted by message
    jobs,       \* the notification queue: keys seen, jobs waiting, rows handed
    charging    \* the billing handlers under way, and the charges that succeeded

vars == <<quota, devices, messages, next_id, reqs, notified, ws, frame, tasks, now,
         call, dreqs, subs, payments, qstash, conns, redis, pushed, jobs, charging>>
sendVars == <<quota, messages, next_id, reqs, notified>>
hubVars == <<ws, tasks>>
\* what no handler of the send pipeline or of the device sessions touches
billingVars == <<subs, payments>>
sessionVars == <<conns, redis, pushed, jobs, charging>>
restVars == <<call, dreqs, billingVars, qstash, sessionVars>>

\* ------------------------------------------------------------------- plans
\* UserPlan.max_sms_per_month of the plan a quota points to
Plans == {"free", "basic"}
PlanMaxSms(plan_id) == IF plan_id = "free" THEN MaxSmsPerMonth ELSE MaxSmsBasic
\* UserPlan.max_devices
PlanMaxDevices(plan_id) ==
    IF plan_id = "free" THEN MaxDevicesFree ELSE MaxDevicesBasic

\* No frame was handled by the last step
NoFrame == [device |-> NULL, received |-> "none", known |-> FALSE, sent |-> "none"]
Exchange(d, received, known, sent) ==
    [device |-> d, received |-> received, known |-> known, sent |-> sent]

NoSub == [present |-> FALSE, user_id |-> NULL, plan_id |-> NULL,
          status |-> "pending", payment_method |-> "invoice",
          current_period_start |-> NoTime, current_period_end |-> NoTime,
          cancel_at_period_end |-> FALSE, provider_user_uuid |-> NULL]

NoPayment == [present |-> FALSE, subscription_id |-> 0, status |-> "pending",
              provider_transaction_id |-> NULL, paid_at |-> NoTime,
              period_start |-> NoTime, period_end |-> NoTime]

IdleDeviceReq == [pc |-> "idle", op |-> "none", user_id |-> NULL,
                  device_id |-> NULL, read |-> 0, status_code |-> 0]

IdleReq == [pc |-> "idle", user_id |-> NULL, count |-> 0, device_id |-> NULL,
            body |-> NULL,
            read |-> 0, status_code |-> 0, ids |-> {}, added |-> 0]

\* The billing handlers that may run at once: deliveries of the provider's
\* webhook and runs of the renewal job
Workers == {"b1", "b2"}
PeriodStarts == 0..(MaxDays + ReminderDays)
IdleWorker == [pc |-> "idle", kind |-> "none", todo |-> {}, sid |-> 0,
               period_start |-> 0, period_end |-> 0, ok |-> FALSE,
               transaction_id |-> NULL]
NoCharging == [worker |-> [w \in Workers |-> IdleWorker],
               succeeded |-> [i \in SubIds |-> [t \in PeriodStarts |-> 0]]]

\* The notification queue with nothing enqueued yet
NoJobs == [keys |-> {}, pending |-> {}, handed |-> {}]

\* The WebSocket connections that may be open at once; any of them may be
\* opened with the api_key of any device
Conns == {"c1", "c2"}

\* A connection that is not open: websocket_endpoint is not running for it
NoConn == [pc |-> "closed", device |-> NULL, todo |-> << >>, dirty |-> {},
           pass |-> << >>, idle |-> 0]

\* The store after the plans are seeded, the users have signed up with
\* plan_id as their plan and have registered the devices in registered
InitWith(plan_id, registered, online) ==
    /\ quota = [u \in Users |->
                  [plan_id |-> plan_id, sms_sent_this_month |-> 0,
                   devices_registered |->
                       Cardinality({d \in registered : DeviceOwner(d) = u})]]
    /\ devices = [d \in DeviceIds |->
                    [present |-> d \in registered, user_id |-> DeviceOwner(d),
                     status |-> IF d \in online THEN "online" ELSE "offline",
                     fcm_token |-> TRUE]]
    /\ dreqs = [p \in Reqs |-> IdleDeviceReq]
    /\ subs = [i \in SubIds |-> NoSub]
    /\ payments = [i \in PayIds |-> NoPayment]
    /\ messages = << >>
    /\ next_id = 1
    /\ reqs = [r \in Reqs |-> IdleReq]
    /\ notified = {}
    /\ ws = [d \in DeviceIds |-> d \in online]
    /\ frame = NoFrame
    /\ tasks = {}
    /\ now = 1
    /\ conns = [c \in Conns |-> NoConn]
    /\ redis = [d \in DeviceIds |-> 0]
    /\ pushed = [i \in 1..MaxSessionMsgs |-> 0]
    /\ jobs = NoJobs
    /\ charging = NoCharging

\* No function is being applied
NoCall == [fn |-> "none"]

\* Settings, as far as QStashService reads them: ENVIRONMENT, and whether
\* SERVER_BASE_URL, QSTASH_TOKEN and the two signing keys are set
Environments == {"local", "staging", "production"}
Settings ==
    [ENVIRONMENT : Environments, SERVER_BASE_URL : BOOLEAN,
     QSTASH_TOKEN : BOOLEAN, QSTASH_CURRENT_SIGNING_KEY : BOOLEAN,
     QSTASH_NEXT_SIGNING_KEY : BOOLEAN]
\* What a deployment has without any variable of the environment set
DefaultSettings ==
    [ENVIRONMENT |-> "local", SERVER_BASE_URL |-> FALSE, QSTASH_TOKEN |-> FALSE,
     QSTASH_CURRENT_SIGNING_KEY |-> FALSE, QSTASH_NEXT_SIGNING_KEY |-> FALSE]

\* Settings.is_local_qstash
IsLocalQstash(st) == st.ENVIRONMENT = "local"

\* QStashService.initialize, run once when the application starts: _is_local
\* is set first; without SERVER_BASE_URL, or without a token outside local
\* mode, it returns before the Receiver is built; the Receiver is built when
\* both signing keys are set
Initialize(st) ==
    [is_local |-> IsLocalQstash(st),
     receiver |-> /\ st.SERVER_BASE_URL
                  /\ (IsLocalQstash(st) \/ st.QSTASH_TOKEN)
                  /\ st.QSTASH_CURRENT_SIGNING_KEY
                  /\ st.QSTASH_NEXT_SIGNING_KEY]

Started == qstash = Initialize(DefaultSettings)

Init == InitWith("free", DeviceIds, {}) /\ call = NoCall /\ Started

\* ----------------------------------------------------------- send pipeline
\* POST /sms/send arrives: SMSService.send_sms starts with its arguments
SendStart(r, u, n, body, dev, max_msgs) ==
    /\ reqs[r].pc = "idle"
    /\ next_id + n - 1 <= max_msgs
    /\ reqs' = [reqs EXCEPT ![r] = [IdleReq EXCEPT !.pc = "check", !.user_id = u,
                                       !.count = n, !.body = body,
                                       !.device_id = dev]]
    /\ frame' = NoFrame
    /\ UNCHANGED <<quota, devices, messages, next_id, notified, hubVars, now,
                 restVars>>

\* QuotaService.check_sms_quota: reads the row, raises 429 or returns
QuotaExceeded(q, count) == q.sms_sent_this_month + count > PlanMaxSms(q.plan_id)

CheckSmsQuota(r) ==
    /\ reqs[r].pc = "check"
    /\ reqs' = [reqs EXCEPT ![r] =
                  IF QuotaExceeded(quota[reqs[r].user_id], reqs[r].count)
                  THEN [@ EXCEPT !.pc = "done", !.status_code = 429]
                  ELSE [@ EXCEPT !.pc = "create"]]
    /\ frame' = NoFrame
    /\ UNCHANGED <<quota, devices, messages, next_id, notified, hubVars, now,
                 restVars>>

\* crud.create_sms_messages as send_sms calls it (no devices argument): one
\* row per recipient, all queued with no device; batch_id is a fresh value
\* when there is more than one recipient (the first id of the batch stands
\* for uuid4()); ids are given in the order of created_at
NewMessage(user_id, batch_id, to, body, device_id, status) ==
    [user_id |-> user_id, device_id |-> device_id, batch_id |-> batch_id,
     to |-> to, body |-> body, status |-> status, message_type |-> "outgoing",
     error_message |-> NULL, sent_at |-> NoTime, delivered_at |-> NoTime,
     webhook_sent |-> FALSE]

\* create_sms_messages without the batch_id of a bulk send
CreateSmsMessagesNoBatch(msgs, first, user_id, count, body, devs) ==
    LET ids == first..(first + count - 1)
    IN [i \in DOMAIN msgs \cup ids |->
          IF i \in ids
          THEN NewMessage(user_id, 0, i - first, body, NULL, "queued")
          ELSE msgs[i]]

CreateSmsMessages(msgs, first, user_id, count, body, devs) ==
    LET ids == first..(first + count - 1)
        batch_id == IF count > 1 THEN first ELSE 0
    IN [i \in DOMAIN msgs \cup ids |->
          IF i \in ids
          THEN IF Len(devs) > 0
               THEN NewMessage(user_id, batch_id, i - first, body,
                               devs[((i - first) % Len(devs)) + 1], "assigned")
               ELSE NewMessage(user_id, batch_id, i - first, body, NULL, "queued")
          ELSE msgs[i]]

SendCreate(r, max_msgs) ==
    /\ reqs[r].pc = "create"
    /\ next_id + reqs[r].count - 1 <= max_msgs
    /\ messages' = CreateSmsMessages(messages, next_id, reqs[r].user_id,
                                     reqs[r].count, reqs[r].body, << >>)
    /\ next_id' = next_id + reqs[r].count
    /\ reqs' = [reqs EXCEPT ![r] = [@ EXCEPT !.pc = "increment",
                  !.ids = next_id..(next_id + reqs[r].count - 1)]]
    /\ frame' = NoFrame
    /\ UNCHANGED <<quota, devices, notified, hubVars, now,
                 restVars>>

\* QuotaService.increment_sms_count, first half: _get_or_create_quota loads
\* the row into the session
IncrementRead(r) ==
    /\ reqs[r].pc = "increment"
    /\ reqs' = [reqs EXCEPT ![r] = [@ EXCEPT !.pc = "write",
                  !.read = quota[reqs[r].user_id].sms_sent_this_month]]
    /\ frame' = NoFrame
    /\ UNCHANGED <<quota, devices, messages, next_id, notified, hubVars, now,
                 restVars>>

\* second half: quota.sms_sent_this_month += count; commit writes the value
\* computed from the loaded row
IncrementSmsCount(loaded, count) == loaded + count

IncrementWrite(r) ==
    /\ reqs[r].pc = "write"
    /\ quota' = [quota EXCEPT ![reqs[r].user_id].sms_sent_this_month =
                    IncrementSmsCount(reqs[r].read, reqs[r].count)]
    /\ reqs' = [reqs EXCEPT ![r] = [@ EXCEPT !.pc = "devices",
                  !.added = reqs[r].count]]
    /\ frame' = NoFrame
    /\ UNCHANGED <<devices, messages, next_id, notified, hubVars, now,
                 restVars>>

\* SMSService.get_active_devices: the user's devices with status online, in
\* the order of the query (a fixed order of the ids stands for the order by
\* last_heartbeat)
RECURSIVE SeqOf(_)
SeqOf(S) ==
    IF S = {} THEN << >>
    ELSE LET d == CHOOSE x \in S : \A y \in S : x = "d1" \/ y # "d1"
         IN <<d>> \o SeqOf(S \ {d})

GetActiveDevices(devs, user_id) ==
    SeqOf({d \in DeviceIds : /\ devs[d].present
                             /\ devs[d].user_id = user_id
                             /\ devs[d].status = "online"})

\* send_sms, "Determine devices to use": the device named by the request is
\* loaded by id and must exist and be online; without device_id the user's
\* online devices are the candidates
DeviceUsable(devs, user_id, device_id) ==
    /\ device_id \in DeviceIds
    /\ devs[device_id].present
    /\ devs[device_id].status = "online"

CandidateDevices(devs, user_id, device_id) ==
    IF device_id # NULL
    THEN IF DeviceUsable(devs, user_id, device_id) THEN <<device_id>> ELSE << >>
    ELSE GetActiveDevices(devs, user_id)

\* distribute_messages that gives every message to the first device
DistributeToFirst(msgs, ids, first, devs) ==
    [i \in DOMAIN msgs |->
       IF i \in ids
       THEN [msgs[i] EXCEPT !.device_id = devs[1], !.status = "assigned"]
       ELSE msgs[i]]

\* SMSService.distribute_messages: round robin over the candidates
DistributeMessages(msgs, ids, first, devs) ==
    [i \in DOMAIN msgs |->
       IF i \in ids
       THEN [msgs[i] EXCEPT !.device_id = devs[((i - first) % Len(devs)) + 1],
                            !.status = "assigned"]
       ELSE msgs[i]]

\* FCMService.dispatch_notifications: one push per device that has a token,
\* listing the recipients of the messages assigned to it
DispatchNotifications(msgs, ids, devs) ==
    {i \in ids \cap DOMAIN msgs :
        /\ msgs[i].device_id \in DeviceIds
        /\ devs[msgs[i].device_id].present
        /\ devs[msgs[i].device_id].fcm_token}

\* The rest of send_sms after the counter is written: 400 when the named
\* device is missing or offline or when no device is online, else the
\* messages are distributed, the pushes are queued and the rows returned
SendDistribute(r) ==
    /\ reqs[r].pc = "devices"
    /\ LET cand == CandidateDevices(devices, reqs[r].user_id, reqs[r].device_id)
           first == CHOOSE i \in reqs[r].ids : \A j \in reqs[r].ids : i <= j
       IN IF Len(cand) = 0
          THEN /\ reqs' = [reqs EXCEPT ![r] = [@ EXCEPT !.pc = "done",
                                                 !.status_code = 400]]
               /\ UNCHANGED <<messages, notified>>
          ELSE /\ messages' = DistributeMessages(messages, reqs[r].ids, first, cand)
               /\ notified' = notified \cup
                     DispatchNotifications(messages', reqs[r].ids, devices)
               /\ reqs' = [reqs EXCEPT ![r] = [@ EXCEPT !.pc = "done",
                                                 !.status_code = 201]]
    /\ frame' = NoFrame
    /\ UNCHANGED <<quota, devices, next_id, hubVars, now,
                 restVars>>

\* The response is sent; the worker takes the next request
SendReturn(r) ==
    /\ reqs[r].pc = "done"
    /\ reqs' = [reqs EXCEPT ![r] = IdleReq]
    /\ frame' = NoFrame
    /\ UNCHANGED <<quota, devices, messages, next_id, notified, hubVars, now,
                 restVars>>

\* ------------------------------------------------------- device sessions
\* _send_pending_messages: the assigned outgoing rows of the device are sent
\* as task frames and set to sending
PendingMessages(msgs, d) ==
    {i \in DOMAIN msgs : /\ msgs[i].device_id = d
                         /\ msgs[i].status = "assigned"
                         /\ msgs[i].message_type = "outgoing"}

SendPendingMessages(msgs, d) ==
    [i \in DOMAIN msgs |->
       IF i \in PendingMessages(msgs, d)
       THEN [msgs[i] EXCEPT !.status = "sending"] ELSE msgs[i]]

\* websocket_endpoint up to its receive loop: the key names a device, the hub
\* registers the session, the row is set online and the pending tasks go out
Connect(d) ==
    /\ devices[d].present
    /\ ~ws[d]
    /\ ws' = [ws EXCEPT ![d] = TRUE]
    /\ devices' = [devices EXCEPT ![d].status = "online"]
    /\ messages' = SendPendingMessages(messages, d)
    /\ frame' = Exchange(d, "connect", FALSE,
                         IF PendingMessages(messages, d) # {} THEN "task" ELSE "none")
    /\ UNCHANGED <<quota, next_id, reqs, notified, tasks, now,
                 restVars>>

\* frame "ping": pending tasks go out again, then pong
Ping(d) ==
    /\ ws[d]
    /\ devices[d].present
    /\ messages' = SendPendingMessages(messages, d)
    /\ frame' = Exchange(d, "ping", FALSE, "pong")
    /\ UNCHANGED <<quota, devices, next_id, reqs, notified, ws, tasks, now,
                 restVars>>

\* WebSocketDisconnect: the hub forgets the session, the row is set offline
Disconnect(d) ==
    /\ ws[d]
    /\ ws' = [ws EXCEPT ![d] = FALSE]
    /\ devices' = [devices EXCEPT ![d].status = "offline"]
    /\ frame' = NoFrame
    /\ UNCHANGED <<quota, messages, next_id, reqs, notified, tasks, now,
                 restVars>>

\* ------------------------------------------------------ delivery reports
\* update_message_status (the Celery task and SMSService.update_message_status
\* have the same body): the row takes the reported status, the error text
\* when one is given, and the stamp of the reported status
UpdateMessageStatus(msgs, id, status, error_message, t) ==
    IF id \notin DOMAIN msgs THEN msgs
    ELSE [msgs EXCEPT ![id] =
            [@ EXCEPT !.status = status,
                      !.error_message = IF error_message # NULL
                                        THEN error_message ELSE @,
                      !.sent_at = IF status = "sent" THEN t ELSE @,
                      !.delivered_at = IF status = "delivered" THEN t ELSE @]]

\* SMSService.process_sms_ack: as above, but only sent_at is stamped
ProcessSmsAck(msgs, id, status, error_message, t) ==
    IF id \notin DOMAIN msgs THEN msgs
    ELSE [msgs EXCEPT ![id] =
            [@ EXCEPT !.status = status,
                      !.error_message = IF error_message # NULL
                                        THEN error_message ELSE @,
                      !.sent_at = IF status = "sent" THEN t ELSE @]]

\* The test of the sms_report branch: the row exists and belongs to the
\* device of the session
ReportAccepted(msgs, d, id) == id \in DOMAIN msgs /\ msgs[id].device_id = d

\* frame "sms_report" whose message_id parses: the update is handed to the
\* broker when the row is the device's, and the frame is answered with ack
\* either way
SmsReport(d, id, status, error) ==
    /\ ws[d]
    /\ IF ReportAccepted(messages, d, id)
       THEN /\ Cardinality(tasks) < MaxTasks
            /\ tasks' = tasks \cup {[message_id |-> id, status |-> status,
                                     error_message |-> error]}
       ELSE UNCHANGED tasks
    /\ frame' = Exchange(d, "sms_report", ReportAccepted(messages, d, id), "ack")
    /\ UNCHANGED <<quota, devices, messages, next_id, reqs, notified, ws, now,
                 restVars>>

\* frame "sms_report" whose message_id is no UUID: error frame, next frame
SmsReportMalformed(d) ==
    /\ ws[d]
    /\ frame' = Exchange(d, "sms_report", FALSE, "error")
    /\ UNCHANGED <<quota, devices, messages, next_id, reqs, notified, ws, tasks, now,
                 restVars>>

\* A Celery worker runs one queued update_message_status task
RunUpdateMessageStatus(task) ==
    /\ task \in tasks
    /\ tasks' = tasks \ {task}
    /\ messages' = UpdateMessageStatus(messages, task.message_id, task.status,
                                        task.error_message, now)
    /\ frame' = NoFrame
    /\ UNCHANGED <<quota, devices, next_id, reqs, notified, ws, now,
                 restVars>>

\* POST /sms/report of a device (X-API-Key of the device, body SMSReport):
\* the report of a row of the reporting device is processed by
\* SMSService.process_sms_ack
HttpReport(d, id, status, error) ==
    /\ devices[d].present
    /\ ReportAccepted(messages, d, id)
    /\ messages' = ProcessSmsAck(messages, id, status, error, now)
    /\ frame' = NoFrame
    /\ UNCHANGED <<quota, devices, next_id, reqs, notified, hubVars, now,
                 restVars>>

\* ----------------------------------------------------- sweeps and callbacks
\* retry_failed_messages (every 5 minutes): failed outgoing rows of the last
\* 24 hours (every row of the model is that young) are set to "pending"
RetryStatus == "pending"

RetryFailed(msgs) ==
    [i \in DOMAIN msgs |->
       IF msgs[i].status = "failed" /\ msgs[i].message_type = "outgoing"
       THEN [msgs[i] EXCEPT !.status = RetryStatus] ELSE msgs[i]]

RetryFailedMessages ==
    /\ \E i \in DOMAIN messages : messages[i].status = "failed"
    /\ messages' = RetryFailed(messages)
    /\ frame' = NoFrame
    /\ UNCHANGED <<quota, devices, next_id, reqs, notified, hubVars, now,
                 restVars>>

\* POST /internal/queue/callback: the listed rows go assigned -> sending
QueueCallback(msgs, ids) ==
    [i \in DOMAIN msgs |->
       IF i \in ids /\ msgs[i].status = "assigned"
       THEN [msgs[i] EXCEPT !.status = "sending"] ELSE msgs[i]]

HandleQueueCallback(ids) ==
    /\ ids \subseteq notified
    /\ messages' = QueueCallback(messages, ids)
    /\ frame' = NoFrame
    /\ UNCHANGED <<quota, devices, next_id, reqs, notified, hubVars, now,
                 restVars>>

\* POST /internal/queue/failure: every listed row that exists is set failed
QueueFailure(msgs, ids) ==
    [i \in DOMAIN msgs |->
       IF i \in ids
       THEN [msgs[i] EXCEPT !.status = "failed",
                            !.error_message = "Delivery failed after retries"]
       ELSE msgs[i]]

HandleQueueFailure(ids) ==
    /\ ids \subseteq notified
    /\ messages' = QueueFailure(messages, ids)
    /\ frame' = NoFrame
    /\ UNCHANGED <<quota, devices, next_id, reqs, notified, hubVars, now,
                 restVars>>

\* DELETE /sms/devices/{id} by the owner: crud.delete_sms_device deletes the
\* row through the ORM, whose SMSDevice.messages relationship is declared
\* cascade_delete, so the rows of the device go with it
DeleteSmsDevice(msgs, d) ==
    [i \in {j \in DOMAIN msgs : msgs[j].device_id # d} |-> msgs[i]]

\* QuotaService.decrement_device_count: the counter computed from the loaded
\* value, never below zero
DecrementDeviceCount(loaded) == IF loaded > 0 THEN loaded - 1 ELSE loaded

\* The whole of the delete_device route, run without another handler between
\* its commits: the row is deleted and the counter of the owner decremented
DeleteDevice(d) ==
    /\ devices[d].present
    /\ devices' = [devices EXCEPT ![d].present = FALSE, ![d].status = "offline"]
    /\ messages' = DeleteSmsDevice(messages, d)
    /\ quota' = [quota EXCEPT ![devices[d].user_id].devices_registered =
                    DecrementDeviceCount(@)]
    /\ frame' = NoFrame
    /\ UNCHANGED <<next_id, reqs, notified, hubVars, now,
                 restVars>>

\* --------------------------------------- device registration and deletion
\* POST /sms/devices and DELETE /sms/devices/{id}, commit by commit. What
\* these handlers leave alone
deviceRest == <<messages, next_id, reqs, notified, ws, frame, tasks, now, call,
                billingVars, qstash, sessionVars>>

\* POST /sms/devices of user u arrives
RegisterStart(p, u) ==
    /\ dreqs[p].pc = "idle"
    /\ dreqs' = [dreqs EXCEPT ![p] = [IdleDeviceReq EXCEPT !.pc = "check",
                                         !.op = "create", !.user_id = u]]
    /\ UNCHANGED <<quota, devices, deviceRest>>

\* QuotaService.check_device_quota: 429 when the counter has reached
\* max_devices of the plan
DeviceQuotaExceeded(q) == q.devices_registered >= PlanMaxDevices(q.plan_id)

CheckDeviceQuota(p) ==
    /\ dreqs[p].pc = "check"
    /\ dreqs' = [dreqs EXCEPT ![p] =
                   IF DeviceQuotaExceeded(quota[dreqs[p].user_id])
                   THEN [@ EXCEPT !.pc = "done", !.status_code = 429]
                   ELSE [@ EXCEPT !.pc = "create"]]
    /\ UNCHANGED <<quota, devices, deviceRest>>

\* crud.create_sms_device: a new row of the user is committed (an id with no
\* row stands for the fresh uuid)
CreateSmsDevice(devs, d, user_id) ==
    [devs EXCEPT ![d] = [present |-> TRUE, user_id |-> user_id,
                         status |-> "offline", fcm_token |-> TRUE]]

RegisterCreate(p) ==
    /\ dreqs[p].pc = "create"
    /\ \E d \in DeviceIds :
          /\ ~devices[d].present
          /\ devices' = CreateSmsDevice(devices, d, dreqs[p].user_id)
          /\ dreqs' = [dreqs EXCEPT ![p] = [@ EXCEPT !.pc = "load",
                                               !.device_id = d]]
    /\ UNCHANGED <<quota, deviceRest>>

\* DELETE /sms/devices/{id} of user u arrives: 404 unless the row exists and
\* is the user's
DeleteStart(p, u, d) ==
    /\ dreqs[p].pc = "idle"
    /\ dreqs' = [dreqs EXCEPT ![p] =
                   IF devices[d].present /\ devices[d].user_id = u
                   THEN [IdleDeviceReq EXCEPT !.pc = "delete", !.op = "delete",
                                              !.user_id = u, !.device_id = d]
                   ELSE [IdleDeviceReq EXCEPT !.pc = "done", !.op = "delete",
                                              !.user_id = u, !.device_id = d,
                                              !.status_code = 404]]
    /\ UNCHANGED <<quota, devices, deviceRest>>

\* crud.delete_sms_device: the row is loaded again and deleted if it is there
DeleteRow(p) ==
    /\ dreqs[p].pc = "delete"
    /\ LET d == dreqs[p].device_id
       IN IF devices[d].present
          THEN /\ devices' = [devices EXCEPT ![d].present = FALSE,
                                              ![d].status = "offline"]
               /\ messages' = DeleteSmsDevice(messages, d)
          ELSE UNCHANGED <<devices, messages>>
    /\ dreqs' = [dreqs EXCEPT ![p] = [@ EXCEPT !.pc = "load"]]
    /\ UNCHANGED <<quota, next_id, reqs, notified, ws, frame, tasks, now, call,
                   billingVars, qstash, sessionVars>>

\* increment_device_count / decrement_device_count, first half:
\* _get_or_create_quota loads the row
DeviceCountRead(p) ==
    /\ dreqs[p].pc = "load"
    /\ dreqs' = [dreqs EXCEPT ![p] = [@ EXCEPT !.pc = "write",
                   !.read = quota[dreqs[p].user_id].devices_registered]]
    /\ UNCHANGED <<quota, devices, deviceRest>>

\* second half: the counter computed from the loaded row is committed
IncrementDeviceCount(loaded) == loaded + 1

DeviceCountWrite(p) ==
    /\ dreqs[p].pc = "write"
    /\ quota' = [quota EXCEPT ![dreqs[p].user_id].devices_registered =
                    IF dreqs[p].op = "create"
                    THEN IncrementDeviceCount(dreqs[p].read)
                    ELSE DecrementDeviceCount(dreqs[p].read)]
    /\ dreqs' = [dreqs EXCEPT ![p] = [@ EXCEPT !.pc = "done",
                   !.status_code = IF dreqs[p].op = "create" THEN 201 ELSE 200]]
    /\ UNCHANGED <<devices, deviceRest>>

\* The response is sent
DeviceReturn(p) ==
    /\ dreqs[p].pc = "done"
    /\ dreqs' = [dreqs EXCEPT ![p] = IdleDeviceReq]
    /\ UNCHANGED <<quota, devices, deviceRest>>

\* Time passes
TickUntil(max) ==
    /\ now < max
    /\ now' = now + 1
    /\ frame' = NoFrame
    /\ UNCHANGED <<quota, devices, messages, next_id, reqs, notified, hubVars,
                 restVars>>

Tick == TickUntil(MaxClock)

\* ------------------------------------------------ subscriptions and payments
\* Every method of SubscriptionService commits once, at its end, and an
\* exception before the commit leaves the store as it was: one step each.
billingRest == <<devices, messages, next_id, reqs, notified, ws, frame, tasks,
                 now, dreqs, qstash, sessionVars>>

\* UserPlan.price: the Free plan costs nothing
PlanPrice(plan_id) == IF plan_id = "free" THEN 0 ELSE 1
\* The end of the billing period that starts at t
PeriodEnd(t) == t + PeriodDays

\* select(Subscription).where(user_id == u): the rows of the user
SubsOf(sb, u) == {i \in SubIds : sb[i].present /\ sb[i].user_id = u}
\* A primary key that no row has
FreshIds(rows) == {i \in DOMAIN rows : ~rows[i].present}
FirstOf(S) == CHOOSE i \in S : \A j \in S : i <= j

\* SubscriptionService._update_user_quota: the quota takes the plan and the
\* monthly counter starts again
UpdateUserQuota(q, user_id, plan_id) ==
    [q EXCEPT ![user_id].plan_id = plan_id, ![user_id].sms_sent_this_month = 0]

\* SubscriptionService._downgrade_to_free_plan: only plan_id is written
DowngradeToFreePlan(q, user_id) == [q EXCEPT ![user_id].plan_id = "free"]

\* session.delete(subscription): the payments go with it (cascade_delete)
DeleteSubscription(pm, sid) ==
    [i \in PayIds |->
        IF pm[i].present /\ pm[i].subscription_id = sid THEN NoPayment ELSE pm[i]]

NewSubscription(user_id, plan_id, status, method, t0, t1) ==
    [NoSub EXCEPT !.present = TRUE, !.user_id = user_id, !.plan_id = plan_id,
                  !.status = status, !.payment_method = method,
                  !.current_period_start = t0, !.current_period_end = t1]

NewPayment(sid, t0, t1) ==
    [NoPayment EXCEPT !.present = TRUE, !.subscription_id = sid,
                      !.period_start = t0, !.period_end = t1]

\* Payment.provider_transaction_id is unique: a commit that would store an
\* id another row has fails
TxnTaken(pm, p, txn) ==
    txn # NULL /\ \E q \in PayIds \ {p} :
                     pm[q].present /\ pm[q].provider_transaction_id = txn

\* SubscriptionService.start_subscription; ok: the provider made the invoice
StartSubscription(u, plan_id, method, ok) ==
    /\ LET ex == SubsOf(subs, u)
           blocked == \E i \in ex : subs[i].status \in {"active", "pending"}
           kept == [i \in SubIds |-> IF i \in ex THEN NoSub ELSE subs[i]]
           sid == FirstOf(FreshIds(kept))
           cleared == IF ex = {} THEN payments
                      ELSE DeleteSubscription(payments, FirstOf(ex))
       IN IF blocked
          THEN UNCHANGED <<quota, subs, payments>>                    \* 400
          ELSE IF PlanPrice(plan_id) <= 0
          THEN IF ex # {}
               \* the old row is still there: Subscription.user_id is unique
               THEN UNCHANGED <<quota, subs, payments>>
               ELSE /\ subs' = [subs EXCEPT ![FirstOf(FreshIds(subs))] =
                                  NewSubscription(u, plan_id, "active", method,
                                                  now, PeriodEnd(now))]
                    /\ quota' = UpdateUserQuota(quota, u, plan_id)
                    /\ UNCHANGED payments
          ELSE IF method = "invoice"
          THEN IF ok /\ FreshIds(cleared) # {}
               THEN /\ subs' = [kept EXCEPT ![sid] =
                                  NewSubscription(u, plan_id, "pending", method,
                                                  now, now)]
                    /\ payments' = [cleared EXCEPT ![FirstOf(FreshIds(cleared))] =
                                      NewPayment(sid, now, PeriodEnd(now))]
                    /\ UNCHANGED quota
               ELSE UNCHANGED <<quota, subs, payments>>               \* 502
          ELSE /\ subs' = [kept EXCEPT ![sid] =
                             NewSubscription(u, plan_id, "pending", method,
                                             now, now)]
               /\ payments' = cleared
               /\ UNCHANGED quota
    /\ call' = NoCall
    /\ UNCHANGED billingRest

\* complete_invoice_payment without its check of the status
NeverCompleted(pm, p) == FALSE

\* complete_invoice_payment, "Check if already processed"
AlreadyCompleted(pm, p) == pm[p].status = "completed"

\* The payment is marked paid
CompletePayment(pm, p, txn, t) ==
    [pm EXCEPT ![p].status = "completed", ![p].provider_transaction_id = txn,
               ![p].paid_at = t]

\* SubscriptionService.complete_invoice_payment for the webhook
\* PAYMENT_COMPLETED (remote_id = payment p, transaction txn)
CompleteInvoicePayment(p, txn) ==
    /\ call' = [fn |-> "complete_invoice_payment", payment_id |-> p,
                transaction_id |-> txn,
                again |-> payments[p].present /\ payments[p].status = "completed"]
    /\ IF \/ ~payments[p].present                                    \* 404
          \/ AlreadyCompleted(payments, p)
          \/ TxnTaken(payments, p, txn)
       THEN UNCHANGED <<quota, subs, payments>>
       ELSE LET sid == payments[p].subscription_id
                sub == subs[sid]
            IN /\ payments' = CompletePayment(payments, p, txn, now)
               /\ subs' = IF sub.status \in {"pending", "past_due"}
                          THEN [subs EXCEPT ![sid].status = "active",
                                  ![sid].current_period_start = payments[p].period_start,
                                  ![sid].current_period_end = payments[p].period_end]
                          ELSE subs
               /\ quota' = IF sub.status = "pending"
                           THEN UpdateUserQuota(quota, sub.user_id, sub.plan_id)
                           ELSE quota
    /\ UNCHANGED billingRest

\* SubscriptionService.complete_authorization: the first charge; ok and txn
\* are the ChargeResult of the provider
CompleteAuthorization(u, ok, txn) ==
    /\ SubsOf(subs, u) # {}
    /\ LET sid == FirstOf(SubsOf(subs, u))
           pid == FirstOf(FreshIds(payments))
       IN IF subs[sid].status # "pending"
          THEN /\ subs' = [subs EXCEPT ![sid].provider_user_uuid = "uuid"]
               /\ UNCHANGED <<quota, payments>>
          ELSE /\ FreshIds(payments) # {}
               /\ IF ok
                  THEN IF TxnTaken(payments, pid, txn)
                       THEN UNCHANGED <<quota, subs, payments>>
                       ELSE /\ payments' = [payments EXCEPT ![pid] =
                                  CompletePayment(
                                      [payments EXCEPT ![pid] =
                                          NewPayment(sid, now, PeriodEnd(now))],
                                      pid, txn, now)[pid]]
                            /\ subs' = [subs EXCEPT
                                  ![sid].provider_user_uuid = "uuid",
                                  ![sid].status = "active",
                                  ![sid].current_period_start = now,
                                  ![sid].current_period_end = PeriodEnd(now)]
                            /\ quota' = UpdateUserQuota(quota, u, subs[sid].plan_id)
                  ELSE /\ payments' = [payments EXCEPT ![pid] =
                             [NewPayment(sid, now, PeriodEnd(now))
                                 EXCEPT !.status = "failed"]]
                       /\ subs' = [subs EXCEPT ![sid].provider_user_uuid = "uuid",
                                                ![sid].status = "expired"]
                       /\ UNCHANGED quota
    /\ call' = NoCall
    /\ UNCHANGED billingRest

\* SubscriptionService.process_renewal at time t, with the ChargeResult of
\* the provider: the rows it leaves, and whether it raised. A subscription
\* that is canceled at the end of its period is set canceled (and 400 is
\* raised); otherwise a Payment for the period after the current one is
\* made and charged: completed and the period moved on, or failed and the
\* subscription past due. A transaction id that another Payment has makes
\* the commit fail
Renewal(sb, pm, sid, ok, txn, t) ==
    LET pid == FirstOf(FreshIds(pm))
        t0 == sb[sid].current_period_end
        same == [subs |-> sb, payments |-> pm, raised |-> TRUE]
    IN IF \/ ~sb[sid].present                                         \* 404
          \/ sb[sid].provider_user_uuid = NULL                        \* 400
          \/ sb[sid].status # "active"                                \* 400
       THEN same
       ELSE IF sb[sid].cancel_at_period_end
       THEN [same EXCEPT !.subs = [sb EXCEPT ![sid].status = "canceled"]]
       ELSE IF ok
       THEN IF TxnTaken(pm, pid, txn)
            THEN same
            ELSE [subs |-> [sb EXCEPT ![sid].current_period_start = t0,
                                      ![sid].current_period_end = PeriodEnd(t0)],
                  payments |-> [pm EXCEPT ![pid] =
                                  CompletePayment(
                                      [pm EXCEPT ![pid] =
                                          NewPayment(sid, t0, PeriodEnd(t0))],
                                      pid, txn, t)[pid]],
                  raised |-> FALSE]
       ELSE [subs |-> [sb EXCEPT ![sid].status = "past_due"],
             payments |-> [pm EXCEPT ![pid] =
                             [NewPayment(sid, t0, PeriodEnd(t0))
                                 EXCEPT !.status = "failed"]],
             raised |-> FALSE]

\* process_renewal of an active subscription with an authorization: what it
\* does to the Subscription and Payment rows
ProcessRenewalRows(sid, ok, txn) ==
    /\ subs[sid].present
    /\ subs[sid].provider_user_uuid # NULL
    /\ subs[sid].status = "active"
    /\ subs[sid].cancel_at_period_end \/ FreshIds(payments) # {}
    /\ LET r == Renewal(subs, payments, sid, ok, txn, now)
       IN subs' = r.subs /\ payments' = r.payments

ProcessRenewal(sid, ok, txn) ==
    /\ ProcessRenewalRows(sid, ok, txn)
    /\ call' = NoCall
    /\ UNCHANGED <<quota, billingRest>>

\* POST /subscriptions/cancel: SubscriptionService.cancel_subscription of the
\* user's subscription
CancelSubscription(u, immediate) ==
    /\ SubsOf(subs, u) # {}
    /\ LET sid == FirstOf(SubsOf(subs, u))
       IN IF subs[sid].status = "canceled"
          THEN UNCHANGED <<quota, subs>>                               \* 400
          ELSE IF immediate
          THEN /\ subs' = [subs EXCEPT ![sid].status = "canceled"]
               /\ quota' = DowngradeToFreePlan(quota, u)
          ELSE /\ subs' = [subs EXCEPT ![sid].cancel_at_period_end = TRUE]
               /\ UNCHANGED quota
    /\ call' = NoCall
    /\ UNCHANGED <<payments, billingRest>>

\* check_renewals_job, step 2: SubscriptionService.expire_subscription of a
\* subscription that is past due and past the grace period
ExpireSubscriptionRows(sid) ==
    /\ subs' = [subs EXCEPT ![sid].status = "expired"]
    /\ quota' = DowngradeToFreePlan(quota, subs[sid].user_id)

ExpireSubscription(sid) ==
    /\ subs[sid].present
    /\ subs[sid].status = "past_due"
    /\ ExpireSubscriptionRows(sid)
    /\ call' = NoCall
    /\ UNCHANGED <<payments, billingRest>>

\* PUT /sms/quota/upgrade by a superuser: the quota of the caller takes the
\* plan
UpgradePlan(u, plan_id) ==
    /\ quota' = [quota EXCEPT ![u].plan_id = plan_id]
    /\ call' = NoCall
    /\ UNCHANGED <<subs, payments, billingRest>>

\* ------------------------------------------------- callbacks of the queue
\* QStashService.verify_signature of a request whose signature verifies under
\* the signing keys or not: local mode and a missing Receiver both answer
\* True without looking at the signature
VerifySignature(q, verifies) ==
    IF q.is_local THEN TRUE
    ELSE IF ~q.receiver THEN TRUE
    ELSE verifies

\* get_verified_qstash_payload of a request with a body that is JSON: 401
\* when verify_signature says no, the payload otherwise
GetVerifiedQstashPayload(q, verifies) ==
    IF ~VerifySignature(q, verifies) THEN 401 ELSE 200

\* A request to one of the endpoints the queue calls, and its answer
Delivery(route, verifies, status_code, handled) ==
    [fn |-> route, verifies |-> verifies, status_code |-> status_code,
     handled |-> handled]

queueRest == <<devices, next_id, reqs, notified, ws, frame, tasks, now, dreqs,
               qstash, sessionVars>>

\* POST /internal/notifications/send: process_queued hands the payload to the
\* handler of the device type, whose send succeeds or not
ProcessNotification(verifies, sent) ==
    /\ call' = IF GetVerifiedQstashPayload(qstash, verifies) = 401
               THEN Delivery("process_notification", verifies, 401, FALSE)
               ELSE Delivery("process_notification", verifies,
                             IF sent THEN 200 ELSE 500, TRUE)
    /\ UNCHANGED <<messages, quota, billingVars, queueRest>>

\* POST /internal/queue/callback with message_ids in the payload
VerifiedQueueCallback(verifies, ids) ==
    /\ IF GetVerifiedQstashPayload(qstash, verifies) = 401
       THEN /\ call' = Delivery("handle_queue_callback", verifies, 401, FALSE)
            /\ UNCHANGED messages
       ELSE /\ call' = Delivery("handle_queue_callback", verifies, 200, FALSE)
            /\ messages' = QueueCallback(messages, ids)
    /\ UNCHANGED <<quota, billingVars, queueRest>>

\* POST /internal/queue/failure with message_ids in the payload
VerifiedQueueFailure(verifies, ids) ==
    /\ IF GetVerifiedQstashPayload(qstash, verifies) = 401
       THEN /\ call' = Delivery("handle_queue_failure", verifies, 401, FALSE)
            /\ UNCHANGED messages
       ELSE /\ call' = Delivery("handle_queue_failure", verifies, 200, FALSE)
            /\ messages' = QueueFailure(messages, ids)
    /\ UNCHANGED <<quota, billingVars, queueRest>>

\* check_renewals_job, the query "expiring" at time t: active, not canceled
\* at the end of its period, the period ending within the reminder days and
\* not ended yet
Expiring(sb, sid, t) ==
    /\ sb[sid].present
    /\ sb[sid].status = "active"
    /\ sb[sid].current_period_end <= t + ReminderDays
    /\ sb[sid].current_period_end > t
    /\ ~sb[sid].cancel_at_period_end

\* check_renewals_job, the query "pending_payment" of a subscription
PendingPayment(pm, sid) ==
    \E p \in PayIds : /\ pm[p].present
                      /\ pm[p].subscription_id = sid
                      /\ pm[p].status = "pending"

\* check_renewals_job, the query "expired" at time t: past due, and the
\* period ended more than the grace days ago
PastGrace(sb, sid, t) ==
    /\ sb[sid].present
    /\ sb[sid].status = "past_due"
    /\ sb[sid].current_period_end < t - GraceDays

\* ChargeResult.transaction_id: an id, or None
ChargeIds == TxnIds \cup {NULL}

\* The ChargeResult of the provider for the charge of a subscription
Charges ==
    {[ok |-> FALSE, transaction_id |-> NULL]} \cup
    [ok : {TRUE}, transaction_id : ChargeIds]

\* check_renewals_job, step 1: process_renewal of every expiring subscription
\* that has no pending Payment, one after the other; an exception of it is
\* caught and listed (so is the one of unpacking its result)
RECURSIVE RenewEach(_, _, _, _, _)
RenewEach(ids, sb, pm, charge, t) ==
    IF ids = {} THEN [subs |-> sb, payments |-> pm]
    ELSE LET sid == FirstOf(ids)
             r == Renewal(sb, pm, sid, charge[sid].ok,
                          charge[sid].transaction_id, t)
         IN IF PendingPayment(pm, sid)
            THEN RenewEach(ids \ {sid}, sb, pm, charge, t)
            ELSE RenewEach(ids \ {sid}, r.subs, r.payments, charge, t)

\* check_renewals_job, step 2: expire_subscription of every subscription
\* past the grace days
ExpireEach(sb, t) ==
    [i \in SubIds |->
        IF PastGrace(sb, i, t) THEN [sb[i] EXCEPT !.status = "expired"] ELSE sb[i]]

DowngradeEach(q, sb, t) ==
    [u \in Users |->
        IF \E i \in SubIds : PastGrace(sb, i, t) /\ sb[i].user_id = u
        THEN [q[u] EXCEPT !.plan_id = "free"] ELSE q[u]]

\* The provider is asked for the charges of the subscriptions a run renews:
\* they get transaction ids no Payment has, one each, and the run finds a
\* primary key for each Payment it adds
NoCharge == [ok |-> FALSE, transaction_id |-> NULL]
Chargeable(sb, pm, charge, t) ==
    LET due == {i \in SubIds : /\ Expiring(sb, i, t)
                               /\ ~PendingPayment(pm, i)
                               /\ sb[i].provider_user_uuid # NULL}
    IN /\ Cardinality(due) <= Cardinality(FreshIds(pm))
       /\ \A i \in SubIds \ due : charge[i] = NoCharge
       /\ \A i \in due :
             charge[i].ok => ~TxnTaken(pm, 0, charge[i].transaction_id)
       /\ \A i, j \in due :
             (i # j /\ charge[i].ok /\ charge[j].ok)
                => \/ charge[i].transaction_id = NULL
                   \/ charge[i].transaction_id # charge[j].transaction_id

\* POST /subscriptions/jobs/check-renewals: 401 when verify_signature says
\* no; otherwise the renewals, then the expirations
CheckRenewalsJob(verifies, charge) ==
    /\ Chargeable(subs, payments, charge, now)
    /\ IF ~VerifySignature(qstash, verifies)
       THEN /\ call' = Delivery("check_renewals_job", verifies, 401, FALSE)
            /\ UNCHANGED <<quota, billingVars>>
       ELSE LET r == RenewEach({i \in SubIds : Expiring(subs, i, now)},
                               subs, payments, charge, now)
            IN /\ call' = Delivery("check_renewals_job", verifies, 200, FALSE)
               /\ subs' = ExpireEach(r.subs, now)
               /\ payments' = r.payments
               /\ quota' = DowngradeEach(quota, r.subs, now)
    /\ UNCHANGED <<messages, queueRest>>


\* ---------------------------------------------------------- specifications
DeviceChoices == {NULL, UnknownDevice} \cup DeviceIds

SendSteps(r, max_msgs) ==
    \/ \E u \in Users, n \in 1..MaxRecipients, b \in Bodies,
          dev \in DeviceChoices : SendStart(r, u, n, b, dev, max_msgs)
    \/ CheckSmsQuota(r)
    \/ SendCreate(r, max_msgs)
    \/ IncrementRead(r)
    \/ IncrementWrite(r)
    \/ SendDistribute(r)
    \/ SendReturn(r)

\* The send pipeline under concurrent requests, with devices coming and going
NextSend ==
    \/ \E r \in Reqs : SendSteps(r, MaxMsgs)
    \/ \E d \in DeviceIds : Connect(d)
    \/ \E d \in DeviceIds : Disconnect(d)

SpecSend == Init /\ [][NextSend]_vars

\* The assignment of the recipients of one send to a list of devices, as
\* create_sms_messages computes it when it is given the devices and as
\* distribute_messages computes it for rows that were created queued
DeviceLists == {<<d>> : d \in DeviceIds} \cup
               {p \in DeviceIds \X DeviceIds : p[1] # p[2]}

AssignCalls ==
    [fn : {"assign"}, user_id : Users, count : 1..MaxAssign, body : Bodies,
     devs : DeviceLists, created : {<< >>}, distributed : {<< >>}]

InitAssign == InitWith("free", DeviceIds, {}) /\ call \in AssignCalls /\ Started

ApplyCreate ==
    /\ call.fn = "assign"
    /\ call.created = << >>
    /\ call' = [call EXCEPT !.created =
                   CreateSmsMessages(<< >>, 1, call.user_id, call.count,
                                     call.body, call.devs)]
    /\ UNCHANGED <<quota, devices, messages, next_id, reqs, notified, ws, frame,
                   tasks, now, dreqs, billingVars, qstash, sessionVars>>

ApplyDistribute ==
    /\ call.fn = "assign"
    /\ call.distributed = << >>
    /\ call' = [call EXCEPT !.distributed =
                   DistributeMessages(
                       CreateSmsMessages(<< >>, 1, call.user_id, call.count,
                                         call.body, << >>),
                       1..call.count, 1, call.devs)]
    /\ UNCHANGED <<quota, devices, messages, next_id, reqs, notified, ws, frame,
                   tasks, now, dreqs, billingVars, qstash, sessionVars>>

NextAssign == ApplyCreate \/ ApplyDistribute

SpecAssign == InitAssign /\ [][NextAssign]_vars

\* No send request is between its arrival and its response
NoRequest == \A r \in Reqs : reqs[r].pc = "idle"

\* Users on the Basic plan register and delete devices concurrently
InitDevices == InitWith("basic", {}, {}) /\ call = NoCall /\ Started

NextDevices ==
    \E p \in Reqs :
        \/ \E u \in Users : RegisterStart(p, u)
        \/ CheckDeviceQuota(p)
        \/ RegisterCreate(p)
        \/ \E u \in Users, d \in DeviceIds : DeleteStart(p, u, d)
        \/ DeleteRow(p)
        \/ DeviceCountRead(p)
        \/ DeviceCountWrite(p)
        \/ DeviceReturn(p)

SpecDevices == InitDevices /\ [][NextDevices]_vars

\* Subscriptions, payments and plan changes of users who send, one handler
\* at a time
InitBilling == InitWith("free", DeviceIds, DeviceIds) /\ call = NoCall /\ Started

Methods == {"invoice", "authorized"}

\* The user whose subscription is followed; the sends name no device
Subscribers == {"u1"}

NextBilling ==
    \/ \E u \in Subscribers, n \in 1..MaxRecipients :
          SendStart(1, u, n, "hi", NULL, MaxBillingMsgs)
    \/ CheckSmsQuota(1)
    \/ SendCreate(1, MaxBillingMsgs)
    \/ IncrementRead(1)
    \/ IncrementWrite(1)
    \/ SendDistribute(1)
    \/ SendReturn(1)
    \/ NoRequest /\ \E u \in Subscribers, pl \in Plans, m \in Methods,
                       ok \in BOOLEAN : StartSubscription(u, pl, m, ok)
    \/ NoRequest /\ \E p \in PayIds, t \in TxnIds : CompleteInvoicePayment(p, t)
    \/ NoRequest /\ \E u \in Subscribers, ok \in BOOLEAN, t \in ChargeIds :
                        CompleteAuthorization(u, ok, t)
    \/ NoRequest /\ \E i \in SubIds, ok \in BOOLEAN, t \in ChargeIds :
                        ProcessRenewal(i, ok, t)
    \/ NoRequest /\ \E u \in Subscribers, im \in BOOLEAN :
                        CancelSubscription(u, im)
    \/ NoRequest /\ \E i \in SubIds : ExpireSubscription(i)
    \/ NoRequest /\ \E u \in Subscribers, pl \in Plans : UpgradePlan(u, pl)
    \/ NoRequest /\ Tick

SpecBilling == InitBilling /\ [][NextBilling]_vars

\* The subscriptions over the days: a user subscribes to the paid plan, pays,
\* authorizes and cancels, another has the Free plan, and the renewal job
\* runs on some days
InitRenewal == InitWith("free", DeviceIds, DeviceIds) /\ call = NoCall /\ Started

NextRenewal ==
    \/ \E u \in Subscribers, m \in Methods, ok \in BOOLEAN :
          StartSubscription(u, "basic", m, ok)
    \/ \E u \in Users \ Subscribers : StartSubscription(u, "free", "invoice", TRUE)
    \/ \E p \in PayIds, t \in TxnIds : CompleteInvoicePayment(p, t)
    \/ \E u \in Subscribers, ok \in BOOLEAN, t \in ChargeIds :
          CompleteAuthorization(u, ok, t)
    \/ \E u \in Subscribers, im \in BOOLEAN : CancelSubscription(u, im)
    \/ \E c \in [SubIds -> Charges] : CheckRenewalsJob(TRUE, c)
    \/ TickUntil(MaxDays)

SpecRenewal == InitRenewal /\ [][NextRenewal]_vars

\* The subscription of one user over the days, with the renewal job run
\* every day and the days passing
NextCancel ==
    \/ \E u \in Subscribers, m \in Methods, ok \in BOOLEAN :
          StartSubscription(u, "basic", m, ok)
    \/ \E p \in PayIds, t \in TxnIds : CompleteInvoicePayment(p, t)
    \/ \E u \in Subscribers, ok \in BOOLEAN, t \in ChargeIds :
          CompleteAuthorization(u, ok, t)
    \/ \E u \in Subscribers, im \in BOOLEAN : CancelSubscription(u, im)
    \/ \E c \in [SubIds -> Charges] : CheckRenewalsJob(TRUE, c)
    \/ TickUntil(MaxDays)

SpecCancel == InitRenewal /\ [][NextCancel]_vars

\* The schedule of the queue calls the job every day, and the days pass
DailyScan == \E c \in [SubIds -> Charges] : CheckRenewalsJob(TRUE, c)

SpecCancelFair ==
    SpecCancel /\ WF_vars(DailyScan) /\ WF_vars(TickUntil(MaxDays))

\* ------------------------------------------------ billing handlers by step
\* complete_authorization and check_renewals_job / process_renewal between
\* the points where they wait. Each handler has its own database Session:
\* what it flushed is seen by the others only after its commit, and a row it
\* updated is locked until then
overlapRest == <<devices, messages, next_id, reqs, notified, ws, frame, tasks,
                 now, call, dreqs, qstash, conns, redis, pushed, jobs>>

AllIdle == \A w \in Workers : charging.worker[w].pc = "idle"

\* complete_authorization up to its first flush: the subscription of the
\* user is read; one that is not pending gets the authorization and the
\* handler is done
AuthRead(w, u) ==
    /\ charging.worker[w].pc = "idle"
    /\ SubsOf(subs, u) # {}
    /\ LET sid == FirstOf(SubsOf(subs, u))
       IN IF subs[sid].status # "pending"
          THEN /\ \A v \in Workers \ {w} :
                     ~(charging.worker[v].sid = sid
                       /\ charging.worker[v].kind = "authorization"
                       /\ charging.worker[v].pc \in {"charging", "commit"})
               /\ subs' = [subs EXCEPT ![sid].provider_user_uuid = "uuid"]
               /\ UNCHANGED charging
          ELSE /\ charging' = [charging EXCEPT !.worker[w] =
                                  [IdleWorker EXCEPT !.pc = "flush",
                                                     !.kind = "authorization",
                                                     !.sid = sid]]
               /\ UNCHANGED subs
    /\ UNCHANGED <<quota, payments, overlapRest>>

\* session.flush() of provider_user_uuid waits for the lock of the row, then
\* the Payment of the period that starts now is flushed and the charge is
\* sent to the provider
AuthFlush(w) ==
    /\ charging.worker[w].pc = "flush"
    /\ \A v \in Workers \ {w} :
          ~(charging.worker[v].sid = charging.worker[w].sid
            /\ charging.worker[v].kind = "authorization"
            /\ charging.worker[v].pc \in {"charging", "commit"})
    /\ charging' = [charging EXCEPT !.worker[w] =
                       [@ EXCEPT !.pc = "charging", !.period_start = now,
                                 !.period_end = PeriodEnd(now)]]
    /\ UNCHANGED <<quota, subs, payments, overlapRest>>

\* check_renewals_job, the query "expiring" of a run
ScanRead(w) ==
    /\ charging.worker[w].pc = "idle"
    /\ charging' = [charging EXCEPT !.worker[w] =
                       [IdleWorker EXCEPT !.pc = "scan", !.kind = "renewal",
                                          !.todo = {i \in SubIds :
                                                      Expiring(subs, i, now)}]]
    /\ UNCHANGED <<quota, subs, payments, overlapRest>>

\* The loop of step 1, one subscription: passed over when it has a pending
\* Payment or process_renewal raises; else process_renewal flushes the
\* Payment of the period after the one it read and sends the charge. After
\* the last subscription step 2 expires what is past the grace days
ScanNext(w) ==
    /\ charging.worker[w].pc = "scan"
    /\ IF charging.worker[w].todo = {}
       THEN /\ subs' = ExpireEach(subs, now)
            /\ quota' = DowngradeEach(quota, subs, now)
            /\ charging' = [charging EXCEPT !.worker[w] = IdleWorker]
       ELSE LET sid == FirstOf(charging.worker[w].todo)
                rest == charging.worker[w].todo \ {sid}
            IN /\ UNCHANGED <<quota, subs>>
               /\ charging' = [charging EXCEPT !.worker[w] =
                     IF \/ PendingPayment(payments, sid)
                        \/ ~subs[sid].present
                        \/ subs[sid].provider_user_uuid = NULL
                        \/ subs[sid].status # "active"
                        \/ subs[sid].cancel_at_period_end
                     THEN [@ EXCEPT !.todo = rest]
                     ELSE [@ EXCEPT !.pc = "charging", !.todo = rest,
                                    !.sid = sid,
                                    !.period_start = subs[sid].current_period_end,
                                    !.period_end =
                                        PeriodEnd(subs[sid].current_period_end)]]
    /\ UNCHANGED <<payments, overlapRest>>

\* charge_authorized_user at the provider: the charge succeeds, with a
\* transaction id no other charge has, or fails
ChargeAuthorizedUser(w, ok, txn) ==
    /\ charging.worker[w].pc = "charging"
    /\ ok \/ txn = NULL
    /\ ok => /\ ~TxnTaken(payments, 0, txn)
             /\ \A v \in Workers \ {w} :
                   txn = NULL \/ charging.worker[v].transaction_id # txn
    /\ charging' = [charging EXCEPT
          !.worker[w] = [@ EXCEPT !.pc = "commit", !.ok = ok,
                                  !.transaction_id = txn],
          !.succeeded[charging.worker[w].sid][charging.worker[w].period_start] =
              IF ok THEN @ + 1 ELSE @]
    /\ UNCHANGED <<quota, subs, payments, overlapRest>>

\* The rest of the handler after the answer of the provider, to its commit:
\* the Payment completed or failed, and what the handler set on the
\* subscription it read
ChargeCommitted(w) ==
    LET me == charging.worker[w]
        pid == FirstOf(FreshIds(payments))
        row == NewPayment(me.sid, me.period_start, me.period_end)
    IN /\ me.pc = "commit"
       /\ FreshIds(payments) # {}
       /\ payments' = [payments EXCEPT ![pid] =
             IF me.ok
             THEN [row EXCEPT !.status = "completed",
                              !.provider_transaction_id = me.transaction_id,
                              !.paid_at = IF me.kind = "authorization"
                                          THEN me.period_start ELSE now]
             ELSE [row EXCEPT !.status = "failed"]]
       /\ IF me.kind = "authorization"
          THEN /\ subs' = IF me.ok
                          THEN [subs EXCEPT
                                  ![me.sid].provider_user_uuid = "uuid",
                                  ![me.sid].status = "active",
                                  ![me.sid].current_period_start = me.period_start,
                                  ![me.sid].current_period_end = me.period_end]
                          ELSE [subs EXCEPT
                                  ![me.sid].provider_user_uuid = "uuid",
                                  ![me.sid].status = "expired"]
               /\ quota' = IF me.ok
                           THEN UpdateUserQuota(quota, subs[me.sid].user_id,
                                                subs[me.sid].plan_id)
                           ELSE quota
               /\ charging' = [charging EXCEPT !.worker[w] = IdleWorker]
          ELSE /\ subs' = IF me.ok
                          THEN [subs EXCEPT
                                  ![me.sid].current_period_start = me.period_start,
                                  ![me.sid].current_period_end = me.period_end]
                          ELSE [subs EXCEPT ![me.sid].status = "past_due"]
               /\ UNCHANGED quota
               /\ charging' = [charging EXCEPT !.worker[w] =
                                  [IdleWorker EXCEPT !.pc = "scan",
                                                     !.kind = "renewal",
                                                     !.todo = me.todo]]
       /\ UNCHANGED overlapRest

\* A user subscribes with an authorization; the provider delivers its
\* webhook, possibly twice, the renewal job runs, possibly twice at once,
\* and the days pass
NextOverlap ==
    \/ \E u \in Subscribers :
          /\ AllIdle
          /\ SubsOf(subs, u) = {}
          /\ StartSubscription(u, "basic", "authorized", TRUE)
    \/ \E w \in Workers, u \in Subscribers : AuthRead(w, u)
    \/ \E w \in Workers : AuthFlush(w)
    \/ \E w \in Workers : ScanRead(w)
    \/ \E w \in Workers : ScanNext(w)
    \/ \E w \in Workers, ok \in BOOLEAN, t \in ChargeIds : ChargeAuthorizedUser(w, ok, t)
    \/ \E w \in Workers : ChargeCommitted(w)
    \/ TickUntil(MaxDays)

SpecOverlap == InitRenewal /\ [][NextOverlap]_vars

\* ---------------------------------------------------------------- webhooks
\* Text is a sequence of pieces: a mark of JSON (a brace, a colon, a comma, a
\* space, a quote, a backslash) or a run of other characters
Quote == "\""
Backslash == "\\"
NonAscii == "n~"                \* a run of characters outside ASCII
Concat(a, b) == a \o b

\* json.dumps of a str, character by character: the quote and the backslash
\* get a backslash; with ensure_ascii what is not ASCII becomes \uXXXX
EscapeChar(c, ensure_ascii) ==
    IF c = Quote THEN <<Backslash, Quote>>
    ELSE IF c = Backslash THEN <<Backslash, Backslash>>
    ELSE IF c = NonAscii /\ ensure_ascii THEN <<Backslash, "u00f1">>
    ELSE <<c>>

RECURSIVE Escape(_, _)
Escape(str, ensure_ascii) ==
    IF str = << >> THEN << >>
    ELSE Concat(EscapeChar(Head(str), ensure_ascii),
                Escape(Tail(str), ensure_ascii))

DumpsStr(str, ensure_ascii) ==
    Concat(<<Quote>>, Concat(Escape(str, ensure_ascii), <<Quote>>))

\* The payload of send_webhook: its keys in the order the dict is written in,
\* and in sorted order
PayloadKeys == <<"event", "from", "body", "timestamp", "message_id">>
SortedKeys == <<"body", "event", "from", "message_id", "timestamp">>
KeyText(k) == <<k>>

\* json.dumps of a dict of strings with the given order of keys and the
\* given separators
RECURSIVE DumpsItems(_, _, _, _, _)
DumpsItems(keys, d, item_sep, key_sep, ensure_ascii) ==
    IF keys = << >> THEN << >>
    ELSE LET k == Head(keys)
             item == Concat(DumpsStr(KeyText(k), ensure_ascii),
                            Concat(key_sep, DumpsStr(d[k], ensure_ascii)))
         IN IF Len(keys) = 1 THEN item
            ELSE Concat(item,
                        Concat(item_sep,
                               DumpsItems(Tail(keys), d, item_sep, key_sep,
                                          ensure_ascii)))

Dumps(d, sort_keys, item_sep, key_sep, ensure_ascii) ==
    Concat(<<"{">>,
           Concat(DumpsItems(IF sort_keys THEN SortedKeys ELSE PayloadKeys,
                             d, item_sep, key_sep, ensure_ascii),
                  <<"}">>))

\* hmac.new(key, msg, sha256).hexdigest(): two digests are equal when key and
\* message are (no collision is assumed either way)
HmacSha256Hex(key, msg) == [key |-> key, msg |-> msg]

\* WebhookService._generate_signature
GenerateSignature(secret_key, payload) == HmacSha256Hex(secret_key, payload)

\* WebhookService.verify_signature
WebhookVerifySignature(secret_key, payload, signature) ==
    GenerateSignature(secret_key, payload) = signature

\* The body httpx makes of json=payload: json.dumps with the keys as they
\* are in the dict; compact separators and ensure_ascii=False in the releases
\* since 0.28, the defaults of json.dumps in those before
HttpxEncodeJson(d, compact) ==
    IF compact THEN Dumps(d, FALSE, <<",">>, <<":">>, FALSE)
    ELSE Dumps(d, FALSE, <<",", " ">>, <<":", " ">>, TRUE)

NoHeader == [present |-> FALSE]
NotSent == [sent |-> FALSE]

\* An unset secret_key is None or the empty string
SecretSet(secret_key) == secret_key # NULL /\ secret_key # ""

\* WebhookService.send_webhook: the request it posts, if any
SendWebhook(c) ==
    IF ~c.active THEN NotSent
    ELSE LET payload == [k \in {"event", "from", "body", "timestamp",
                                "message_id"} |->
                           CASE k = "event" -> <<"sms_received">>
                             [] k = "from" -> c.from_number
                             [] k = "body" -> c.body
                             [] k = "timestamp" -> c.created_at
                             [] OTHER -> c.id]
             payload_json == Dumps(payload, TRUE, <<",">>, <<":">>, TRUE)
         IN [sent |-> TRUE,
             signature |->
                 IF SecretSet(c.secret_key)
                 THEN [present |-> TRUE,
                       value |-> GenerateSignature(c.secret_key,
                                                   DumpsStr(payload_json, TRUE))]
                 ELSE NoHeader,
             content |-> HttpxEncodeJson(payload, c.compact)]

\* The webhooks and incoming messages send_webhook is applied to
Secrets == {NULL, "", "k1"}
FromNumbers == {<< >>, <<"+1">>}
WebhookBodies == {<<"hi">>, <<"a", Quote>>, <<NonAscii>>}
WebhookCalls ==
    [fn : {"send_webhook"}, active : BOOLEAN, secret_key : Secrets,
     from_number : FromNumbers, body : WebhookBodies,
     created_at : {<<"t1">>, <<"t2">>}, id : {<<"m1">>}, compact : BOOLEAN,
     done : {FALSE}, request : {NotSent}, verified : {"none"}]

InitWebhook == InitWith("free", DeviceIds, {}) /\ call \in WebhookCalls /\ Started

webhookRest == <<quota, devices, messages, next_id, reqs, notified, ws, frame,
                 tasks, now, dreqs, billingVars, qstash, sessionVars>>

ApplySendWebhook ==
    /\ call.fn = "send_webhook"
    /\ ~call.done
    /\ call' = [call EXCEPT !.done = TRUE, !.request = SendWebhook(call)]
    /\ UNCHANGED webhookRest

\* The receiver recomputes the HMAC over the body it received, with the
\* secret it shares, and compares it with the header
ReceiverVerifies ==
    /\ call.fn = "send_webhook"
    /\ call.request.sent
    /\ call.request.signature.present
    /\ call.verified = "none"
    /\ call' = [call EXCEPT !.verified =
                   IF WebhookVerifySignature(call.secret_key,
                                             call.request.content,
                                             call.request.signature.value)
                   THEN "match" ELSE "mismatch"]
    /\ UNCHANGED webhookRest

NextWebhook == ApplySendWebhook \/ ReceiverVerifies

SpecWebhook == InitWebhook /\ [][NextWebhook]_vars

\* ------------------------------------------------------------ monthly reset
\* Dates, as far as the sweep looks at them: a month and a day of the month
ResetDays == {1, 15}
Dates == [month : 1..2, day : ResetDays]
NoDate == [month |-> 0, day |-> 0]          \* last_reset_date is None

\* reset_monthly_quotas (the periodic task, and SMSService's method of the
\* same name) over the UserQuota rows at the date today: a row that has a
\* last_reset_date whose day is 1 gets the counter 0 and last_reset_date
\* today; settings.QUOTA_RESET_DAY is not read
ResetMonthlyQuotas(rows, today, quota_reset_day) ==
    [u \in DOMAIN rows |->
        IF rows[u].last_reset_date # NoDate /\ rows[u].last_reset_date.day = 1
        THEN [rows[u] EXCEPT !.sms_sent_this_month = 0,
                             !.last_reset_date = today]
        ELSE rows[u]]

ResetCalls ==
    [fn : {"reset_monthly_quotas"}, QUOTA_RESET_DAY : ResetDays,
     today : Dates,
     quotas : [Users -> [sms_sent_this_month : 0..1,
                         last_reset_date : Dates \cup {NoDate}]],
     done : {FALSE}, result : {<< >>}]

InitReset == InitWith("free", DeviceIds, {}) /\ call \in ResetCalls /\ Started

ApplyResetMonthlyQuotas ==
    /\ call.fn = "reset_monthly_quotas"
    /\ ~call.done
    /\ call' = [call EXCEPT !.done = TRUE,
                            !.result = ResetMonthlyQuotas(call.quotas, call.today,
                                                          call.QUOTA_RESET_DAY)]
    /\ UNCHANGED webhookRest

NextReset == ApplyResetMonthlyQuotas

SpecReset == InitReset /\ [][NextReset]_vars

\* ------------------------------------------------------ push notifications
\* The ceiling of the data of one push message
FcmMaxPayloadBytes == 4096

\* Length of a message body in bytes: a short one, and one of the 1600
\* characters a body may have
DispatchBodies == {"hi", "long"}
BodyLen(body) == IF body = "long" THEN 1600 ELSE 2

\* json.dumps of one {"message_id": str(uuid), "recipient": to} entry, with a
\* recipient of 11 characters: the marks and keys, 36 for the id, 11
EntryLen == 16 + 36 + 17 + 11 + 2

\* Length of the data FCMHandler.send builds of a payload: the keys
\* "messages" and "body", json.dumps of the list of entries (brackets, the
\* entries, ", " between them) and the body
FcmDataSize(entries, body) ==
    LET n == Len(entries)
        list == 2 + n * EntryLen + (IF n > 1 THEN 2 * (n - 1) ELSE 0)
    IN 8 + list + 4 + BodyLen(body)

\* The rows of a list that have the device, in the order of the list
RECURSIVE OfDevice(_, _)
OfDevice(rows, d) ==
    IF rows = << >> THEN << >>
    ELSE IF Head(rows).device_id = d
    THEN <<Head(rows)>> \o OfDevice(Tail(rows), d)
    ELSE OfDevice(Tail(rows), d)

\* The keys of by_device in the order they were inserted: the devices of the
\* rows in the order of their first row
RECURSIVE DeviceOrder(_, _)
DeviceOrder(rows, seen) ==
    IF rows = << >> THEN << >>
    ELSE LET d == Head(rows).device_id
         IN IF d = NULL \/ d \in seen THEN DeviceOrder(Tail(rows), seen)
            ELSE <<d>> \o DeviceOrder(Tail(rows), seen \cup {d})

\* The payload dispatch assembles for a device
NotificationPayload(d, rows, body) ==
    [device_id |-> d,
     messages |-> [i \in 1..Len(rows) |->
                      [message_id |-> rows[i].id, recipient |-> rows[i].to]],
     body |-> body]

\* NotificationDispatcher.dispatch of a list of rows: nothing for an empty
\* list; else one payload per device that exists and has a token, holding all
\* the rows of the device, and _dispatch_single enqueues it when the queue
\* is available. The result is the list of what was enqueued
RECURSIVE DispatchEach(_, _, _, _, _)
DispatchEach(order, rows, body, tokens, available) ==
    IF order = << >> THEN << >>
    ELSE LET d == Head(order)
             rest == DispatchEach(Tail(order), rows, body, tokens, available)
         IN IF d \notin tokens \/ ~available THEN rest
            ELSE <<NotificationPayload(d, OfDevice(rows, d), body)>> \o rest

Dispatch(rows, tokens, available) ==
    IF rows = << >> THEN << >>
    ELSE DispatchEach(DeviceOrder(rows, {}), rows, rows[1].body, tokens,
                      available)

\* The rows of one send of count recipients, assigned to the devices in
\* turn, with their ids
RowsToDispatch(count, body, devs) ==
    LET created == CreateSmsMessages(<< >>, 1, "u1", count, body, << >>)
        assigned == DistributeMessages(created, 1..count, 1, devs)
    IN [i \in 1..count |->
           [id |-> i, to |-> assigned[i].to, body |-> assigned[i].body,
            device_id |-> assigned[i].device_id]]

DispatchCalls ==
    [fn : {"dispatch"}, count : 0..MaxDispatch, body : DispatchBodies,
     devs : DeviceLists, tokens : {DeviceIds, {"d1"}}, available : BOOLEAN,
     done : {FALSE}, enqueued : {<< >>}]

InitDispatch ==
    InitWith("free", DeviceIds, DeviceIds) /\ call \in DispatchCalls /\ Started

ApplyDispatch ==
    /\ call.fn = "dispatch"
    /\ ~call.done
    /\ call' = [call EXCEPT
                   !.done = TRUE,
                   !.enqueued = Dispatch(RowsToDispatch(call.count, call.body,
                                                        call.devs),
                                         call.tokens, call.available)]
    /\ UNCHANGED webhookRest

NextDispatch == ApplyDispatch

SpecDispatch == InitDispatch /\ [][NextDispatch]_vars

\* The endpoints the queue calls, in every configuration the service starts
\* in, with requests whose signature verifies and requests whose signature
\* does not; sends and subscriptions give them rows to act on
InitQueue ==
    /\ InitWith("free", DeviceIds, DeviceIds)
    /\ call = NoCall
    /\ \E st \in Settings : qstash = Initialize(st)

NextQueue ==
    \/ \E u \in Subscribers, n \in 1..MaxRecipients :
          SendStart(1, u, n, "hi", NULL, MaxBillingMsgs)
    \/ CheckSmsQuota(1)
    \/ SendCreate(1, MaxBillingMsgs)
    \/ IncrementRead(1)
    \/ IncrementWrite(1)
    \/ SendDistribute(1)
    \/ SendReturn(1)
    \/ NoRequest /\ \E u \in Subscribers, ok \in BOOLEAN :
                        StartSubscription(u, "basic", "authorized", ok)
    \/ NoRequest /\ \E u \in Subscribers, ok \in BOOLEAN, t \in ChargeIds :
                        CompleteAuthorization(u, ok, t)
    \/ NoRequest /\ \E v \in BOOLEAN, sent \in BOOLEAN :
                        ProcessNotification(v, sent)
    \/ NoRequest /\ \E v \in BOOLEAN, ids \in SUBSET MsgIds :
                        VerifiedQueueCallback(v, ids)
    \/ NoRequest /\ \E v \in BOOLEAN, ids \in SUBSET MsgIds :
                        VerifiedQueueFailure(v, ids)
    \/ NoRequest /\ \E v \in BOOLEAN, c \in [SubIds -> Charges] :
                        CheckRenewalsJob(v, c)
    \/ NoRequest /\ Tick

SpecQueue == InitQueue /\ [][NextQueue]_vars

\* Sends of users on the Basic plan, one request at a time, with devices
\* coming and going: the rows a send creates
InitBatch == InitWith("basic", DeviceIds, {}) /\ call = NoCall /\ Started

NextBatch ==
    \/ SendSteps(1, MaxBatchMsgs)
    \/ NoRequest /\ \E d \in DeviceIds : Connect(d)
    \/ NoRequest /\ \E d \in DeviceIds : Disconnect(d)

SpecBatch == InitBatch /\ [][NextBatch]_vars

\* The life of the Message rows: one request at a time creates them; the
\* sessions, reports, sweeps, callbacks and deletions change them. A request
\* runs to its response before another handler takes a step: its steps touch
\* the quota row and its own new rows only, which are queued and have no
\* device until the last step, and no other handler of this specification
\* reads or writes those (SpecSend interleaves the steps of requests)
Next ==
    \/ SendSteps(1, MaxLiveMsgs)
    \/ NoRequest /\ \E d \in DeviceIds : Connect(d)
    \/ NoRequest /\ \E d \in DeviceIds : Ping(d)
    \/ NoRequest /\ \E d \in DeviceIds : Disconnect(d)
    \/ NoRequest /\ \E d \in DeviceIds, id \in MsgIds, rp \in Reports :
                        SmsReport(d, id, rp[1], rp[2])
    \/ NoRequest /\ \E d \in DeviceIds : SmsReportMalformed(d)
    \/ NoRequest /\ \E t \in tasks : RunUpdateMessageStatus(t)
    \/ NoRequest /\ RetryFailedMessages
    \/ NoRequest /\ \E ids \in SUBSET MsgIds : HandleQueueCallback(ids)
    \/ NoRequest /\ \E ids \in SUBSET MsgIds : HandleQueueFailure(ids)
    \/ NoRequest /\ \E d \in DeviceIds : DeleteDevice(d)
    \/ NoRequest /\ Tick

Spec == Init /\ [][Next]_vars

\* The same with the reports that arrive over HTTP
NextReport ==
    \/ Next
    \/ NoRequest /\ \E d \in DeviceIds, id \in MsgIds, rp \in Reports :
                        HttpReport(d, id, rp[1], rp[2])

SpecReport == Init /\ [][NextReport]_vars

\* ------------------------------------------- WebSocket connections by step
\* The handlers of /android/ws between the points where they wait: every
\* await of a send or of a receive lets another connection run. Each
\* connection has its own database Session, so the rows it changed are seen
\* by the others only after its commit
RECURSIVE InCreationOrder(_)
InCreationOrder(S) ==
    IF S = {} THEN << >>
    ELSE LET i == CHOOSE i \in S : \A j \in S : i <= j
         IN <<i>> \o InCreationOrder(S \ {i})

\* The query of _send_pending_messages: the assigned outgoing rows of the
\* device by created_at (ids are given in creation order; the limit of 50 is
\* above the rows of the model)
PendingRows(msgs, d) == InCreationOrder(PendingMessages(msgs, d))

\* session.commit(): the rows the Session set to sending are written
CommitSending(msgs, dirty) ==
    [i \in DOMAIN msgs |->
       IF i \in dirty THEN [msgs[i] EXCEPT !.status = "sending"] ELSE msgs[i]]

\* _send_pending_messages up to its first send: the rows are read; with no
\* row the commit is empty and the handler is back in its receive loop
StartPass(c, d) ==
    LET todo == PendingRows(messages, d)
    IN [pc |-> IF todo = << >> THEN "open" ELSE "push", device |-> d,
        todo |-> todo, dirty |-> {}, pass |-> << >>, idle |-> 0]

\* websocket_endpoint up to the first send: the key names a device, the hub
\* sets the key of the device with its time to live, the row is set online
WsConnect(c, d) ==
    /\ conns[c].pc = "closed"
    /\ devices[d].present
    /\ redis' = [redis EXCEPT ![d] = HeartbeatTimeout]
    /\ devices' = [devices EXCEPT ![d].status = "online"]
    /\ conns' = [conns EXCEPT ![c] = StartPass(c, d)]
    /\ frame' = NoFrame
    /\ UNCHANGED <<quota, messages, next_id, reqs, notified, ws, tasks, now,
                 call, dreqs, billingVars, qstash, pushed, jobs, charging>>

\* frame "ping": last_heartbeat of the row is written (the key of the hub is
\* not touched) and the pending rows are read again
WsPing(c) ==
    /\ conns[c].pc = "open"
    /\ conns' = [conns EXCEPT ![c] = StartPass(c, conns[c].device)]
    /\ frame' = NoFrame
    /\ UNCHANGED <<quota, devices, messages, next_id, reqs, notified, ws, tasks,
                 now, call, dreqs, billingVars, qstash, redis, pushed, jobs, charging>>

\* One turn of the loop of _send_pending_messages: the task frame of the next
\* row is sent and the row is set to sending in the Session; after the last
\* row the Session is committed
WsPush(c) ==
    /\ conns[c].pc = "push"
    /\ LET id == Head(conns[c].todo)
           rest == Tail(conns[c].todo)
           dirty == conns[c].dirty \cup {id}
       IN /\ pushed' = [pushed EXCEPT ![id] = @ + 1]
          /\ IF rest = << >>
             THEN /\ messages' = CommitSending(messages, dirty)
                  /\ conns' = [conns EXCEPT ![c] =
                                 [@ EXCEPT !.pc = "open", !.todo = << >>,
                                           !.dirty = {},
                                           !.pass = Append(@, id)]]
             ELSE /\ UNCHANGED messages
                  /\ conns' = [conns EXCEPT ![c] =
                                 [@ EXCEPT !.todo = rest, !.dirty = dirty,
                                           !.pass = Append(@, id)]]
    /\ frame' = NoFrame
    /\ UNCHANGED <<quota, devices, next_id, reqs, notified, ws, tasks, now,
                 call, dreqs, billingVars, qstash, redis, jobs, charging>>

\* The except branches of websocket_endpoint: the hub deletes the key of the
\* device, the row is set offline and the Session is committed, with the
\* rows it had set to sending
Closed(c) ==
    /\ redis' = [redis EXCEPT ![conns[c].device] = 0]
    /\ devices' = [devices EXCEPT ![conns[c].device].status = "offline"]
    /\ messages' = CommitSending(messages, conns[c].dirty)
    /\ conns' = [conns EXCEPT ![c] = NoConn]
    /\ frame' = NoFrame
    /\ UNCHANGED <<quota, next_id, reqs, notified, ws, tasks, now,
                 call, dreqs, billingVars, qstash, pushed, jobs, charging>>

\* websocket.send_json of a task frame raises: the frame is not sent
WsPushFail(c) == conns[c].pc = "push" /\ Closed(c)

\* websocket.receive_json raises WebSocketDisconnect: the transport closed
WsClose(c) == conns[c].pc = "open" /\ Closed(c)

\* One step of the clock of the hub: every key has one step less to live and
\* is gone at zero; every open connection has gone one more step without a
\* ping
HeartbeatTick ==
    /\ \/ \E d \in DeviceIds : redis[d] > 0
       \/ \E c \in Conns : conns[c].pc # "closed" /\ conns[c].idle < HeartbeatTimeout
    /\ redis' = [d \in DeviceIds |-> IF redis[d] > 0 THEN redis[d] - 1 ELSE 0]
    /\ conns' = [c \in Conns |->
                   IF conns[c].pc # "closed" /\ conns[c].idle < HeartbeatTimeout
                   THEN [conns[c] EXCEPT !.idle = @ + 1] ELSE conns[c]]
    /\ frame' = NoFrame
    /\ UNCHANGED <<quota, devices, messages, next_id, reqs, notified, ws, tasks,
                 now, call, dreqs, billingVars, qstash, pushed, jobs, charging>>

\* WebSocketManager.is_connected: the key of the device exists
IsConnected(d) == redis[d] > 0

\* Sends of one user, one request at a time, while connections are opened
\* with the keys of the devices, ping, fail and close, and the queue calls
\* back
InitSession == InitWith("basic", DeviceIds, {}) /\ call = NoCall /\ Started

NextSession ==
    \/ \E n \in 1..MaxRecipients : SendStart(1, "u1", n, "hi", NULL, MaxSessionMsgs)
    \/ CheckSmsQuota(1)
    \/ SendCreate(1, MaxSessionMsgs)
    \/ IncrementRead(1)
    \/ IncrementWrite(1)
    \/ SendDistribute(1)
    \/ SendReturn(1)
    \/ NoRequest /\ \E c \in Conns, d \in DeviceIds : WsConnect(c, d)
    \/ NoRequest /\ \E c \in Conns : WsPing(c)
    \/ NoRequest /\ \E c \in Conns : WsPush(c)
    \/ NoRequest /\ \E c \in Conns : WsPushFail(c)
    \/ NoRequest /\ \E c \in Conns : WsClose(c)
    \/ NoRequest /\ HeartbeatTick
    \/ NoRequest /\ \E ids \in SUBSET MsgIds : HandleQueueCallback(ids)

SpecSession == InitSession /\ [][NextSession]_vars

\* --------------------------------------------------- the push queue by job
\* The deduplication_id of _dispatch_single: the device, hash(body) and the
\* number of messages of the payload (hash is that of one process: the same
\* body has the same hash)
Hash(body) == body

DeduplicationId(payload) ==
    <<payload.device_id, Hash(payload.body), Len(payload.messages)>>

\* The message ids a payload lists
PayloadIds(payload) ==
    {payload.messages[k].message_id : k \in DOMAIN payload.messages}

\* QStashService.enqueue of the payloads of one dispatch, in their order, on
\* a queue that collapses jobs with a deduplication id it has seen
RECURSIVE EnqueueEach(_, _)
EnqueueEach(q, payloads) ==
    IF payloads = << >> THEN q
    ELSE LET p == Head(payloads)
             key == DeduplicationId(p)
             accepted == [q EXCEPT !.keys = @ \cup {key},
                                   !.pending = @ \cup {[key |-> key,
                                                        ids |-> PayloadIds(p)]}]
         IN EnqueueEach(IF key \in q.keys THEN q ELSE accepted, Tail(payloads))

\* A send of n recipients by u, from its quota check to its rows assigned to
\* the online devices of u, followed by NotificationDispatcher.dispatch of
\* those rows with the queue available
DispatchSend(u, n, body) ==
    LET cand == CandidateDevices(devices, u, NULL)
        ids == next_id..(next_id + n - 1)
        created == CreateSmsMessages(messages, next_id, u, n, body, << >>)
        assigned == DistributeMessages(created, ids, next_id, cand)
        rows == [k \in 1..n |->
                    [id |-> next_id + k - 1, to |-> assigned[next_id + k - 1].to,
                     body |-> body,
                     device_id |-> assigned[next_id + k - 1].device_id]]
        tokens == {d \in DeviceIds : devices[d].present /\ devices[d].fcm_token}
    IN /\ next_id + n - 1 <= MaxPushMsgs
       /\ ~QuotaExceeded(quota[u], n)
       /\ Len(cand) > 0
       /\ messages' = assigned
       /\ next_id' = next_id + n
       /\ quota' = [quota EXCEPT ![u].sms_sent_this_month =
                                     IncrementSmsCount(@, n)]
       /\ jobs' = EnqueueEach(jobs, Dispatch(rows, tokens, TRUE))
       /\ call' = NoCall
       /\ UNCHANGED <<devices, reqs, notified, ws, frame, tasks, now, dreqs,
                      billingVars, qstash, conns, redis, pushed, charging>>

\* The queue delivers a waiting job to POST /internal/notifications/send with
\* a signature that verifies: process_queued hands the payload to the
\* handler, whose send succeeds or not; the answer is 200 or 500, and the
\* queue keeps the job for another delivery unless the answer was 200
DeliverJob(job, sent) ==
    /\ job \in jobs.pending
    /\ GetVerifiedQstashPayload(qstash, TRUE) = 200
    /\ jobs' = [jobs EXCEPT !.handed = @ \cup job.ids,
                            !.pending = IF sent THEN @ \ {job} ELSE @]
    /\ call' = Delivery("process_notification", TRUE,
                        IF sent THEN 200 ELSE 500, TRUE)
    /\ UNCHANGED <<quota, devices, messages, next_id, reqs, notified, ws, frame,
                   tasks, now, dreqs, billingVars, qstash, conns, redis, pushed, charging>>

InitPush == InitWith("basic", DeviceIds, DeviceIds) /\ call = NoCall /\ Started

NextPush ==
    \/ \E u \in Users, n \in 1..MaxRecipients, b \in Bodies : DispatchSend(u, n, b)
    \/ \E job \in jobs.pending, sent \in BOOLEAN : DeliverJob(job, sent)

SpecPush == InitPush /\ [][NextPush]_vars

\* The queue delivers every job it accepted again and again until the
\* answer is 200
Redelivered(i) ==
    \E job \in jobs.pending, sent \in BOOLEAN : i \in job.ids /\ DeliverJob(job, sent)

SpecPushFair ==
    SpecPush /\ \A i \in 1..MaxPushMsgs : WF_vars(Redelivered(i))

\* ------------------------------------------------------------ inbound SMS
\* WebhookConfig rows and what json.loads makes of their events text: the
\* names of a JSON list, or an error for a text that is no JSON
HookIds == {"w1", "w2"}
EventTexts == {"[\"sms_received\"]", "[\"sms_sent\"]", "sms_received"}
Malformed == [raised |-> TRUE, value |-> {}]
JsonLoads(text) ==
    CASE text = "[\"sms_received\"]" -> [raised |-> FALSE, value |-> {"sms_received"}]
      [] text = "[\"sms_sent\"]" -> [raised |-> FALSE, value |-> {"sms_sent"}]
      [] OTHER -> Malformed

Hooks == [HookIds -> [user_id : Users, active : BOOLEAN, events : EventTexts]]

\* The rows the handlers select. SMSService.handle_incoming_sms filters on
\* WebhookConfig.user_id == user_id and WebhookConfig.active; the task
\* process_incoming_sms filters on "WebhookConfig.active is True", which
\* Python evaluates to False before the query is built, so no row matches
SelectedHooks(via, hooks, user_id) ==
    IF via = "task" THEN {}
    ELSE {w \in HookIds : hooks[w].user_id = user_id /\ hooks[w].active}

\* The loop over the selected rows: a delivery is scheduled for a row whose
\* events parse and contain sms_received; a row whose events do not parse is
\* passed over
ScheduledHooks(via, hooks, user_id) ==
    {w \in SelectedHooks(via, hooks, user_id) :
        /\ ~JsonLoads(hooks[w].events).raised
        /\ "sms_received" \in JsonLoads(hooks[w].events).value}

\* SMSService.process_incoming_sms: the row of an inbound SMS
IncomingMessage(user_id, body) ==
    [NewMessage(user_id, 0, 0, body, NULL, "received")
        EXCEPT !.message_type = "incoming"]

\* What can become of the POST of a delivery
Outcomes == {"2xx", "3xx", "4xx", "5xx", "timeout", "network"}

\* WebhookService.send_webhook, its result: success when the webhook is
\* active and raise_for_status does not raise (for a 3xx answer it raises in
\* the versions of httpx that raise for every status but 2xx)
WebhookSuccess(hook, outcome, redirect_raises) ==
    /\ hook.active
    /\ \/ outcome = "2xx"
       \/ outcome = "3xx" /\ ~redirect_raises

IncomingCalls ==
    [fn : {"incoming"}, via : {"task", "service"}, user_id : Users,
     hooks : Hooks, redirect_raises : BOOLEAN, done : {FALSE},
     message_id : {0}, scheduled : {{}}, outcome : {[w \in HookIds |-> "none"]}]

InitIncoming == InitWith("free", DeviceIds, {}) /\ call \in IncomingCalls /\ Started

incomingRest == <<quota, devices, reqs, notified, ws, frame, tasks, now, dreqs,
                  billingVars, qstash, sessionVars>>

\* An inbound SMS of call.user_id is handled: the row is committed, the
\* deliveries are scheduled
ApplyIncoming ==
    /\ call.fn = "incoming"
    /\ ~call.done
    /\ messages' = [i \in DOMAIN messages \cup {next_id} |->
                       IF i = next_id THEN IncomingMessage(call.user_id, "hi")
                       ELSE messages[i]]
    /\ next_id' = next_id + 1
    /\ call' = [call EXCEPT !.done = TRUE, !.message_id = next_id,
                            !.scheduled = ScheduledHooks(call.via, call.hooks,
                                                         call.user_id)]
    /\ UNCHANGED incomingRest

\* send_webhook_notification of a scheduled delivery runs: webhook_sent of
\* the row is set when send_webhook reports success
RunWebhookNotification(w, outcome) ==
    /\ call.fn = "incoming"
    /\ call.done
    /\ w \in call.scheduled
    /\ call.outcome[w] = "none"
    /\ messages' = IF WebhookSuccess(call.hooks[w], outcome, call.redirect_raises)
                   THEN [messages EXCEPT ![call.message_id].webhook_sent = TRUE]
                   ELSE messages
    /\ call' = [call EXCEPT !.outcome[w] = outcome]
    /\ UNCHANGED <<next_id, incomingRest>>

NextIncoming ==
    \/ ApplyIncoming
    \/ \E w \in HookIds, o \in Outcomes : RunWebhookNotification(w, o)

SpecIncoming == InitIncoming /\ [][NextIncoming]_vars

\* ------------------------------------------------------------------ claims
RowsOf(u) == {i \in DOMAIN messages : messages[i].user_id = u}
RowsCreatedBy(r) == reqs[r].ids \cap DOMAIN messages
Rejected(r) == reqs[r].pc = "done" /\ reqs[r].status_code \in {400, 429}

\* C1: under any interleaving of concurrent sends of one user, the counter
\* sms_sent_this_month never exceeds max_sms_per_month of the user's plan
C1_CounterWithinPlanLimit ==
    \A u \in Users :
        quota[u].sms_sent_this_month <= PlanMaxSms(quota[u].plan_id)

\* C2: once no send is between creating its rows and writing the counter, the
\* counter of a user has grown by exactly the recipients of the user's
\* accepted sends, one Message row each: no increment is lost
C2_NoIncrementLost ==
    (\A r \in Reqs : reqs[r].pc \notin {"increment", "write"})
        => \A u \in Users : quota[u].sms_sent_this_month = Cardinality(RowsOf(u))

\* C3: a send answered 429 or 400 leaves the store as it was: none of its
\* Message rows exists and it has added nothing to sms_sent_this_month
C3_RejectedSendLeavesStore ==
    \A r \in Reqs :
        Rejected(r) => RowsCreatedBy(r) = {} /\ reqs[r].added = 0

\* C4: a send within quota that names no device and finds no device of the
\* user online succeeds (201): one row per recipient, each queued with no
\* device, nothing pushed, and the counter grown by the number of recipients
C4_QueuedWhenNoDeviceOnline ==
    \A r \in Reqs :
        (/\ reqs[r].pc = "done"
         /\ reqs[r].status_code # 429
         /\ reqs[r].device_id = NULL
         /\ \A i \in RowsCreatedBy(r) : /\ messages[i].status = "queued"
                                        /\ messages[i].device_id = NULL)
        => /\ reqs[r].status_code = 201
           /\ Cardinality(RowsCreatedBy(r)) = reqs[r].count
           /\ RowsCreatedBy(r) \cap notified = {}
           /\ reqs[r].added = reqs[r].count

\* C5: in every reachable state a Message that is assigned, sending, sent or
\* delivered has a device_id, and a Message that is queued has none
C5_DeviceIdFollowsStatus ==
    \A i \in DOMAIN messages :
        /\ messages[i].status \in {"assigned", "sending", "sent", "delivered"}
              => messages[i].device_id # NULL
        /\ messages[i].status = "queued" => messages[i].device_id = NULL

\* C6: the status of an outgoing Message is always one of the declared values
\* and changes only along queued -> assigned -> sending -> sent | failed and
\* sent -> delivered; nothing leaves failed or delivered
Lifecycle == {<<"queued", "assigned">>, <<"assigned", "sending">>,
              <<"sending", "sent">>, <<"sending", "failed">>,
              <<"sent", "delivered">>}

C6_StatusFollowsLifecycle ==
    [][\A i \in DOMAIN messages' :
          /\ messages'[i].status \in DeclaredStatuses
          /\ i \in DOMAIN messages =>
                \/ messages'[i].status = messages[i].status
                \/ <<messages[i].status, messages'[i].status>> \in Lifecycle]_vars

\* C7: a report (message_id, sent) for a Message that is already sent leaves
\* the row as it is; sent_at keeps the stamp of the first report
C7_AckIdempotent ==
    [][\A i \in DOMAIN messages \cap DOMAIN messages' :
          (messages[i].status = "sent" /\ messages'[i].status = "sent")
             => messages'[i] = messages[i]]_vars

\* C8: whenever sent_at and delivered_at of a Message are both set,
\* sent_at <= delivered_at, in whatever order the reports arrived
C8_SentBeforeDelivered ==
    \A i \in DOMAIN messages :
        (messages[i].sent_at # NoTime /\ messages[i].delivered_at # NoTime)
           => messages[i].sent_at <= messages[i].delivered_at

\* C9: an sms_report whose message_id is malformed, unknown or not a row of
\* the session's device is answered with an error frame
C9_UnknownReportGetsError ==
    (frame.received = "sms_report" /\ ~frame.known) => frame.sent = "error"

\* C10: no Message has a device_id of a device that belongs to another user
C10_DeviceOfSameUser ==
    \A i \in DOMAIN messages :
        messages[i].device_id \in DeviceIds
           => devices[messages[i].device_id].user_id = messages[i].user_id

\* C11: when a send with recipients R is answered 201, exactly |R| rows of
\* that user were created by it, one per recipient in order, all with the
\* body of the request; they share one batch_id that no other row has when
\* |R| > 1, and have no batch_id when |R| = 1
Accepted(r) == reqs[r].pc = "done" /\ reqs[r].status_code = 201
FirstId(r) == CHOOSE i \in reqs[r].ids : \A j \in reqs[r].ids : i <= j

C11_SendCreatesOneRowPerRecipient ==
    \A r \in Reqs :
        Accepted(r) =>
            /\ reqs[r].ids \subseteq DOMAIN messages
            /\ Cardinality(reqs[r].ids) = reqs[r].count
            /\ \A i \in reqs[r].ids :
                  /\ messages[i].user_id = reqs[r].user_id
                  /\ messages[i].body = reqs[r].body
                  /\ messages[i].to = i - FirstId(r)
                  /\ messages[i].batch_id = messages[FirstId(r)].batch_id
                  /\ (reqs[r].count = 1) = (messages[i].batch_id = 0)
            /\ \A i \in DOMAIN messages \ reqs[r].ids :
                  messages[i].batch_id = 0
                     \/ messages[i].batch_id # messages[FirstId(r)].batch_id

\* a second bulk send has been answered 201 after a first one
C11_Witness ==
    \E r \in Reqs :
        /\ Accepted(r)
        /\ reqs[r].count = 2
        /\ \E i \in DOMAIN messages \ reqs[r].ids : messages[i].batch_id # 0

\* C12: with k >= 1 devices, recipient i (from 0) of a send is assigned to
\* devices[i mod k] with status assigned, by create_sms_messages and by
\* distribute_messages alike, so the numbers of messages of any two of the
\* devices differ by at most one
RoundRobin(rows, devs) ==
    \A i \in DOMAIN rows :
        /\ rows[i].device_id = devs[((i - 1) % Len(devs)) + 1]
        /\ rows[i].status = "assigned"

Load(rows, d) == Cardinality({i \in DOMAIN rows : rows[i].device_id = d})

Balanced(rows, devs) ==
    \A j \in DOMAIN devs, k \in DOMAIN devs :
        Load(rows, devs[j]) <= Load(rows, devs[k]) + 1

C12_RoundRobinAssignment ==
    call.fn = "assign" =>
        /\ call.created # << >> =>
              /\ DOMAIN call.created = 1..call.count
              /\ RoundRobin(call.created, call.devs)
              /\ Balanced(call.created, call.devs)
        /\ call.distributed # << >> =>
              /\ DOMAIN call.distributed = 1..call.count
              /\ RoundRobin(call.distributed, call.devs)
              /\ Balanced(call.distributed, call.devs)

\* three recipients went round two devices, both ways
C12_Witness ==
    /\ call.fn = "assign"
    /\ Len(call.devs) = 2
    /\ call.count = 3
    /\ call.created # << >>
    /\ call.distributed # << >>
    /\ call.created[3].device_id = call.devs[1]
    /\ call.distributed[3].device_id = call.devs[1]

\* C13: for every user, whenever no registration or deletion is between its
\* commits, devices_registered is the number of SMSDevice rows of the user
DevicesOf(u) == {d \in DeviceIds : devices[d].present /\ devices[d].user_id = u}

C13_DevicesRegisteredIsCount ==
    (\A p \in Reqs : dreqs[p].pc \in {"idle", "done"})
        => \A u \in Users :
              quota[u].devices_registered = Cardinality(DevicesOf(u))

\* C14: after every committed operation (a send, the activation, the
\* cancellation or the expiry of a subscription, a plan change by an
\* administrator) sms_sent_this_month is at most max_sms_per_month of the
\* plan the quota points to
C14_CounterWithinCurrentPlan ==
    NoRequest =>
        \A u \in Users :
            quota[u].sms_sent_this_month <= PlanMaxSms(quota[u].plan_id)

\* C15: every user has at most one Subscription, and while it is active the
\* quota of the user points to the plan of the subscription
C15_ActiveSubscriptionSetsPlan ==
    \A u \in Users :
        /\ Cardinality(SubsOf(subs, u)) <= 1
        /\ \A i \in SubsOf(subs, u) :
              subs[i].status = "active" => quota[u].plan_id = subs[i].plan_id

\* C16: the webhook PAYMENT_COMPLETED for a Payment that is already
\* completed changes no Payment, no Subscription and no Quota
C16_PaymentWebhookIdempotent ==
    [][(/\ call' # call
        /\ call'.fn = "complete_invoice_payment"
        /\ call'.again)
          => UNCHANGED <<payments, subs, quota>>]_vars

\* the webhook of a completed payment has been processed a second time, with
\* another transaction id, while the subscription is active
C16_Witness ==
    /\ call.fn = "complete_invoice_payment"
    /\ call.again
    /\ payments[call.payment_id].status = "completed"
    /\ payments[call.payment_id].provider_transaction_id # call.transaction_id
    /\ subs[payments[call.payment_id].subscription_id].status = "active"

\* C17: every Payment that is completed has a provider_transaction_id and a
\* paid_at, whichever path completed it
C17_CompletedPaymentHasTransaction ==
    \A p \in PayIds :
        (payments[p].present /\ payments[p].status = "completed")
           => /\ payments[p].provider_transaction_id # NULL
              /\ payments[p].paid_at # NoTime


\* C18: a request to an endpoint of the queue (notification send, queue
\* callback, queue failure, check-renewals job) whose signature does not
\* verify is answered 401 and has no effect: no device handler is invoked, no
\* Message changes, no Subscription, Payment or Quota changes; in every
\* configuration the service starts in
ForgedDelivery ==
    \/ \E sent \in BOOLEAN : ProcessNotification(FALSE, sent)
    \/ \E ids \in SUBSET MsgIds : VerifiedQueueCallback(FALSE, ids)
    \/ \E ids \in SUBSET MsgIds : VerifiedQueueFailure(FALSE, ids)
    \/ \E c \in [SubIds -> Charges] : CheckRenewalsJob(FALSE, c)

C18_ForgedCallbackRejected ==
    [][ForgedDelivery =>
          /\ call'.status_code = 401
          /\ ~call'.handled
          /\ UNCHANGED <<messages, subs, payments, quota>>]_vars


\* C19: a webhook request of a WebhookConfig with a secret_key carries
\* X-Webhook-Signature = HMAC-SHA256(secret_key, the body that is sent), so
\* that the receiver's check over the received body matches; a request of a
\* WebhookConfig without secret_key carries no such header
C19_SignatureOverTransmittedBody ==
    (call.fn = "send_webhook" /\ call.done /\ call.request.sent) =>
        /\ SecretSet(call.secret_key) =>
              /\ call.request.signature.present
              /\ call.request.signature.value =
                    GenerateSignature(call.secret_key, call.request.content)
              /\ call.verified # "mismatch"
        /\ ~SecretSet(call.secret_key) => ~call.request.signature.present


\* C20: what dispatch enqueues for a device is a partition of the device's
\* messages in chunks that keeps their order (the chunks of a device, one
\* after the other, are its list of messages), every chunk's data is at most
\* 4096 bytes, and an empty list gives no chunk; every chunk is one enqueue
RECURSIVE ChunksOf(_, _)
ChunksOf(enqueued, d) ==
    IF enqueued = << >> THEN << >>
    ELSE IF Head(enqueued).device_id = d
    THEN Head(enqueued).messages \o ChunksOf(Tail(enqueued), d)
    ELSE ChunksOf(Tail(enqueued), d)

C20_ChunksPartitionWithinCeiling ==
    (call.fn = "dispatch" /\ call.done /\ call.available) =>
        LET rows == RowsToDispatch(call.count, call.body, call.devs)
        IN /\ \A d \in call.tokens :
                 ChunksOf(call.enqueued, d) =
                     NotificationPayload(d, OfDevice(rows, d), call.body).messages
           /\ \A i \in 1..Len(call.enqueued) :
                 /\ call.enqueued[i].messages # << >>
                 /\ FcmDataSize(call.enqueued[i].messages, call.body)
                       <= FcmMaxPayloadBytes
           /\ call.count = 0 => call.enqueued = << >>


\* C21: a run of the renewal scan charges exactly the subscriptions that are
\* active, not canceled at the end of the period, authorized, with the period
\* ending by now + reminder days and without a pending Payment: a charge that
\* succeeds adds a completed Payment and moves the period on by one period
\* from its old end, the status staying active; a charge that fails sets the
\* subscription past due; the renewal step charges and changes no other
\* subscription (the expiration step may expire one that is past the grace
\* days)
RenewalScan == \E c \in [SubIds -> Charges] : CheckRenewalsJob(TRUE, c)

DueForRenewal(i) ==
    /\ subs[i].present
    /\ subs[i].status = "active"
    /\ ~subs[i].cancel_at_period_end
    /\ subs[i].provider_user_uuid # NULL
    /\ subs[i].current_period_end <= now + ReminderDays
    /\ ~PendingPayment(payments, i)

NewPaymentsOf(i) ==
    {p \in PayIds : /\ ~payments[p].present
                    /\ payments'[p].present
                    /\ payments'[p].subscription_id = i}

RenewedBy(i) ==
    LET t0 == subs[i].current_period_end
    IN /\ subs'[i] = [subs[i] EXCEPT !.current_period_start = t0,
                                     !.current_period_end = t0 + PeriodDays]
       /\ \E p \in NewPaymentsOf(i) :
             /\ payments'[p].status = "completed"
             /\ payments'[p].period_start = t0
             /\ payments'[p].period_end = t0 + PeriodDays

FailedBy(i) == subs'[i] = [subs[i] EXCEPT !.status = "past_due"]

UntouchedBy(i) ==
    /\ NewPaymentsOf(i) = {}
    /\ \/ subs'[i] = subs[i]
       \/ /\ PastGrace(subs, i, now)
          /\ subs'[i] = [subs[i] EXCEPT !.status = "expired"]

C21_ScanChargesExactlyTheDue ==
    [][RenewalScan =>
          \A i \in SubIds :
             IF DueForRenewal(i) THEN RenewedBy(i) \/ FailedBy(i)
             ELSE UntouchedBy(i)]_vars


\* C22: the status of a Subscription row changes only along the lifecycle:
\* pending to active together with a completed Payment, pending to expired
\* when the first charge of an authorization fails, active to past_due on a
\* failed renewal, past_due to active on a received payment, past_due to
\* expired after the grace days, and to canceled by the user's cancellation;
\* an expired or canceled row never changes status again (a new subscription
\* replaces it)
Replaced ==
    \E u \in Users, pl \in Plans, m \in Methods, ok \in BOOLEAN :
        StartSubscription(u, pl, m, ok)

CompletedFor(pm, i) ==
    \E p \in PayIds : /\ pm[p].present
                      /\ pm[p].subscription_id = i
                      /\ pm[p].status = "completed"

LifecycleStep(i) ==
    LET a == subs[i].status
        b == subs'[i].status
    IN \/ a = b
       \/ a = "pending" /\ b = "active" /\ CompletedFor(payments', i)
       \/ /\ a = "pending" /\ b = "expired"
          /\ \E p \in PayIds : /\ ~payments[p].present
                               /\ payments'[p].present
                               /\ payments'[p].subscription_id = i
                               /\ payments'[p].status = "failed"
       \/ a = "active" /\ b = "past_due"
       \/ a = "past_due" /\ b = "active" /\ CompletedFor(payments', i)
       \/ a = "past_due" /\ b = "expired" /\ PastGrace(subs, i, now)
       \/ a \in {"pending", "active", "past_due"} /\ b = "canceled"

C22_StatusFollowsSubscriptionLifecycle ==
    [][Replaced \/ \A i \in SubIds :
                     (subs[i].present /\ subs'[i].present) => LifecycleStep(i)]_vars


\* C23: a run of the monthly reset sets sms_sent_this_month to 0 and
\* last_reset_date to now for exactly the quotas whose last_reset_date is on
\* the configured day of the month (QUOTA_RESET_DAY), and leaves every other
\* quota as it was
C23_ResetOnConfiguredDay ==
    (call.fn = "reset_monthly_quotas" /\ call.done) =>
        \A u \in Users :
            IF /\ call.quotas[u].last_reset_date # NoDate
               /\ call.quotas[u].last_reset_date.day = call.QUOTA_RESET_DAY
            THEN call.result[u] = [sms_sent_this_month |-> 0,
                                   last_reset_date |-> call.today]
            ELSE call.result[u] = call.quotas[u]

\* C24: over connects, pings, failed pushes and reconnects, also of two
\* connections opened with the key of one device, a row is pushed as one
\* task frame at most and goes assigned -> sending with it: a row in sending
\* had its frame sent (or its push handed to the queue), a row whose frame
\* was sent by a pass that is over is not assigned, and the frames of a pass
\* go out in creation order
PushedOnce == \A i \in DOMAIN messages : pushed[i] <= 1

SendingWasPushed ==
    \A i \in DOMAIN messages :
        messages[i].status = "sending" => (pushed[i] >= 1 \/ i \in notified)

PassOver(i) == \A c \in Conns : i \notin conns[c].dirty

SentNotLeftAssigned ==
    \A i \in DOMAIN messages :
        (pushed[i] >= 1 /\ PassOver(i)) => messages[i].status # "assigned"

PassInCreationOrder ==
    \A c \in Conns : \A j, k \in DOMAIN conns[c].pass :
        j < k => conns[c].pass[j] < conns[c].pass[k]

C24_OneTaskFramePerMessage ==
    /\ PushedOnce
    /\ SendingWasPushed
    /\ SentNotLeftAssigned
    /\ PassInCreationOrder

\* C25: a device is reported connected exactly while a connection opened
\* with its key is open and had its last ping (or its connect) less than the
\* heartbeat timeout ago
ActiveSession(d) ==
    \E c \in Conns : /\ conns[c].pc # "closed"
                     /\ conns[c].device = d
                     /\ conns[c].idle < HeartbeatTimeout

C25_OnlineIffActiveSession ==
    \A d \in DeviceIds : IsConnected(d) <=> ActiveSession(d)

OnlineOnlyWithSession ==
    \A d \in DeviceIds : IsConnected(d) => ActiveSession(d)

\* C26: every Message a send assigns to a device is eventually handed to the
\* handler of the device in a payload that lists it, on a queue that
\* redelivers every job it accepted until the answer is 200 and collapses
\* the jobs with a deduplication id it has seen
AssignedToDevice(i) == i \in DOMAIN messages /\ messages[i].device_id # NULL

C26_AssignedEventuallyHanded ==
    \A i \in 1..MaxPushMsgs : AssignedToDevice(i) ~> (i \in jobs.handed)

\* every assigned row is handed or listed by a job that waits
NoJobCollapsed ==
    \A i \in 1..MaxPushMsgs :
        AssignedToDevice(i) =>
            \/ i \in jobs.handed
            \/ \E job \in jobs.pending : i \in job.ids

\* a send of the handler that fails is answered with 500 and the job waits on
FailedSendRetried ==
    [][\A job \in jobs.pending :
          DeliverJob(job, FALSE) => (call'.status_code = 500 /\ job \in jobs'.pending)]_vars

\* C27: once an inbound SMS of a user is handled, its row is there with
\* status received, a delivery is scheduled for exactly the webhooks of the
\* user that are active and whose events contain sms_received, the row stays
\* whatever becomes of the deliveries, and webhook_sent is set only when a
\* delivery got a 2xx
SubscribedHooks(hooks, user_id) ==
    {w \in HookIds : /\ hooks[w].user_id = user_id
                     /\ hooks[w].active
                     /\ ~JsonLoads(hooks[w].events).raised
                     /\ "sms_received" \in JsonLoads(hooks[w].events).value}

InboundKept ==
    /\ call.message_id \in DOMAIN messages
    /\ messages[call.message_id].status = "received"
    /\ messages[call.message_id].message_type = "incoming"
    /\ messages[call.message_id].user_id = call.user_id

DeliveriesScheduled == call.scheduled = SubscribedHooks(call.hooks, call.user_id)

WebhookSentOnly2xx ==
    messages[call.message_id].webhook_sent =>
        \E w \in HookIds : call.outcome[w] = "2xx"

C27_InboundStoredAndWebhooksScheduled ==
    (call.fn = "incoming" /\ call.done) =>
        /\ InboundKept
        /\ DeliveriesScheduled
        /\ WebhookSentOnly2xx

\* the same of the handler of the service alone, with an httpx whose
\* raise_for_status raises for every status but 2xx
C27_ServiceHandler ==
    (call.fn = "incoming" /\ call.done /\ call.via = "service"
        /\ call.redirect_raises) =>
        /\ InboundKept
        /\ DeliveriesScheduled
        /\ WebhookSentOnly2xx

\* C28: a subscription canceled at the end of its period keeps its status
\* and the paid plan until the period ends, and under daily scans it
\* eventually is not active any more and the quota of the user has the Free
\* plan (for a period that ends before the last day that is followed)
CanceledAtPeriodEnd(u) ==
    \E i \in SubsOf(subs, u) : /\ subs[i].status = "active"
                               /\ subs[i].cancel_at_period_end
                               /\ subs[i].current_period_end < MaxDays

Served(u) ==
    \/ \E i \in SubsOf(subs, u) : subs[i].status = "active"
    \/ quota[u].plan_id # "free"

C28_CanceledAtPeriodEndStopsServing ==
    \A u \in Subscribers : CanceledAtPeriodEnd(u) ~> ~Served(u)

\* until the period ends nothing but an immediate cancel changes the status
\* or the plan
KeptUntilPeriodEnd ==
    [][\A i \in SubIds :
          (/\ subs[i].present
           /\ subs[i].status = "active"
           /\ subs[i].cancel_at_period_end
           /\ now < subs[i].current_period_end
           /\ ~CancelSubscription(subs[i].user_id, TRUE))
          => /\ subs'[i].present
             /\ subs'[i].status = "active"
             /\ quota'[subs[i].user_id].plan_id = quota[subs[i].user_id].plan_id]_vars

\* C29: a user is charged at most once for a billing period: for every
\* subscription and period at most one charge succeeded at the provider and
\* at most one completed Payment covers it, whatever deliveries of the
\* webhook and runs of the job overlap
ChargedOncePerPeriod ==
    \A i \in SubIds, t \in PeriodStarts : charging.succeeded[i][t] <= 1

OneCompletedPaymentPerPeriod ==
    \A p, q \in PayIds :
        (/\ p # q
         /\ payments[p].present /\ payments[q].present
         /\ payments[p].status = "completed" /\ payments[q].status = "completed"
         /\ payments[p].subscription_id = payments[q].subscription_id)
        => payments[p].period_start # payments[q].period_start

C29_ChargedAtMostOncePerPeriod ==
    ChargedOncePerPeriod /\ OneCompletedPaymentPerPeriod

\* C30: a report of a device is taken (its update handed to the broker, or
\* applied, on the HTTP path) only for an outgoing Message that is assigned
\* to the reporting device and belongs to the user of that device
OwnMessage(d, id) ==
    /\ id \in DOMAIN messages
    /\ messages[id].device_id = d
    /\ messages[id].user_id = devices[d].user_id
    /\ messages[id].message_type = "outgoing"

C30_ReportsOnlyOnOwnMessages ==
    [][\A d \in DeviceIds, id \in MsgIds, rp \in Reports :
          /\ (SmsReport(d, id, rp[1], rp[2]) /\ tasks' # tasks) => OwnMessage(d, id)
          /\ HttpReport(d, id, rp[1], rp[2]) => OwnMessage(d, id)]_vars

\* the same without the user: the Message is assigned to the reporting device
C30_AssignedToReporter ==
    [][\A d \in DeviceIds, id \in MsgIds, rp \in Reports :
          /\ (SmsReport(d, id, rp[1], rp[2]) /\ tasks' # tasks)
                => (id \in DOMAIN messages /\ messages[id].device_id = d)
          /\ HttpReport(d, id, rp[1], rp[2])
                => (id \in DOMAIN messages /\ messages[id].device_id = d)]_vars

====
